---- MODULE Spec2Model ----
(***************************************************************************)
(* Verification model of the dynamic triangular-arbitrage bot.             *)
(*                                                                         *)
(*   SpecSizer : DynamicTradeSizer (src/src/utils/dynamicTradeSizer.js)    *)
(*   Spec      : the search loop of src/src/bot/index.js (startup balance  *)
(*               check, overlapping watcher ticks, execution, shutdown)    *)
(*   SpecCB    : getQuoteWithCircuitBreaker (src/unnamed/part_000)         *)
(*                                                                         *)
(* Units.  Trade sizes are integers in units of 1e-5 anchor token; the     *)
(* anchor asset of the model has 6 decimals, so a raw amount is ten times  *)
(* the size.  Percentages are basis points (0.01 %), USD amounts are in    *)
(* units of 1e-9 USD (bp * size * price),                                  *)
(* price impacts are whole percents, the anchor price is whole USD.        *)
(* Floating-point rounding error is not modelled: arithmetic is exact.     *)
(***************************************************************************)
EXTENDS Integers, Sequences, FiniteSets, TLC

\* ------------------------------------------------------------------------
\* Generic helpers
\* ------------------------------------------------------------------------

None == [none |-> TRUE]

\* IEEE NaN, the value of Infinity * 0 and of 0 / 0 in JavaScript.
NaN == -1

\* JavaScript comparison: every comparison with NaN is false.
NumLeq(a, b) == a # NaN /\ b # NaN /\ a <= b

\* BigInt division truncates toward zero.
TruncDiv(a, b) == IF a >= 0 THEN a \div b ELSE -((-a) \div b)

SetMin(S) == CHOOSE x \in S : \A y \in S : x <= y

RECURSIVE SortAsc(_)
SortAsc(S) == IF S = {} THEN << >>
              ELSE LET m == SetMin(S) IN << m >> \o SortAsc(S \ {m})

Range(s) == {s[i] : i \in 1..Len(s)}

Take(s, n) == SubSeq(s, 1, IF n < Len(s) THEN n ELSE Len(s))

\* ------------------------------------------------------------------------
\* Bounds of the model
\* ------------------------------------------------------------------------

\* Largest TRADE_SIZE_TESTS explored.
MaxTests == 4
\* Watcher invocations that can be active at once (tick slots).
MaxTicks == 2
\* Firings of the watcher interval in one run.
MaxStarted == 3
\* Calls to getQuoteWithCircuitBreaker in one run.
MaxCalls == 7
\* Calls that can be awaiting their quote at once.
MaxPending == 2
\* Last instant (ms) of the breaker's clock.
MaxTime == 130000
\* Calls of getQuote that reach enforceRateLimit in one run.
MaxRequests == 31
\* Callers that can be inside a delay of enforceRateLimit at once.
MaxWaiting == 2
\* Length (ms) of the run of the quote client's clock.
MaxRlSpan == 62000

\* updateSOLPrice calls that may be in flight together (the timer's and the
\* ones getCurrentSOLPrice starts)
MaxUpdates == 2

\* Requests handed to the RateLimiter queue in one behaviour.
MaxQueued == 3

\* The watcher fires while cache.iteration is below this.
MaxRotIterations == 2

\* How far the price feed's clock runs (ms after its start).
MaxFreshSpan == 120000

\* Samples pushed to the performance entries in one behaviour.
MaxSamples == 103

\* ------------------------------------------------------------------------
\* DynamicTradeSizer: configuration domains
\* ------------------------------------------------------------------------

\* One rounding step of Math.round(size * 10000) / 10000, in size units.
RoundUnit == 10

Strategies == {"stepped", "optimal"}
TestCounts == 1..MaxTests
\* MIN_TRADE_SIZE_SOL values explored; 12 has a fifth decimal (0.00012).
MinTradeSizes == {10, 12}
\* MAX_TRADE_SIZE_SOL = min + span; spans are multiples of 20 so that every
\* percentage point of the 'optimal' strategy is a whole number of units.
TradeSizeSpans == {20}
\* default PREFERRED_SIZE_PERCENTAGES
preferredPercentages == << 10, 25, 50, 75, 90 >>
\* MIN_PROFIT_THRESHOLD 0.3 % in basis points
MinProfitThresholdBp == 30
\* MAX_PRICE_IMPACT_PERCENT 2.0
MaxPriceImpactPct == 2
\* MIN_PROFIT_USD values explored, in 1e-9 USD
MinProfitUSDs == {5000, 15000}
\* anchor prices (whole USD) handed to the sizer
SolPrices == {2}

\* Raw units (anchor decimals 6) per size unit: toNumber(size, decimals).
RawPerSizeUnit == 10

\* What getQuote can hand back for one leg: it throws (ok = FALSE), or
\* returns a quote; delta is the round-trip out-amount minus the probe's
\* raw input, impact the leg's priceImpactPct.
QuoteDeltas == {-5, 0, 5, 20}
Leg1Impacts == {0, 1}
Leg2Impacts == {0, 3}
Leg1Quotes == {[ok |-> FALSE, impact |-> 0]} \cup
              {[ok |-> TRUE, impact |-> i] : i \in Leg1Impacts}
Leg2Quotes == {[ok |-> FALSE, delta |-> 0, impact |-> 0]} \cup
              {[ok |-> TRUE, delta |-> d, impact |-> i] :
                   d \in QuoteDeltas, i \in Leg2Impacts}

\* ------------------------------------------------------------------------
\* DynamicTradeSizer: pure functions
\* ------------------------------------------------------------------------

\* Math.round(x * 10000) / 10000 for x = num / den (den > 0, num >= 0):
\* round half up to a multiple of RoundUnit.
Round4(num, den) ==
    RoundUnit * ((2 * num + RoundUnit * den) \div (2 * RoundUnit * den))

\* Array.prototype.slice(0, end) on a sequence: a negative end counts from
\* the back.
SliceTo(s, end) ==
    IF end >= 0 THEN Take(s, end)
    ELSE IF Len(s) + end > 0 THEN SubSeq(s, 1, Len(s) + end) ELSE << >>

\* generateTestSizes, strategy 'stepped': step = (max - min) / (N - 1);
\* with N = 1 the step is Infinity (or NaN) and min + step * 0 is NaN.
SteppedSizes(minS, maxS, n) ==
    IF n = 1 THEN << NaN >>
    ELSE [i \in 1..n |->
             Round4(minS * (n - 1) + (maxS - minS) * (i - 1), n - 1)]

\* generateTestSizes, strategy 'optimal': min, the percentage points and
\* max, deduplicated, sorted, cut to N, returned without rounding.
OptimalSizes(minS, maxS, n) ==
    LET pcts  == SliceTo(preferredPercentages, n - 2)
        sizes == {minS, maxS} \cup
                 {minS + ((maxS - minS) * pcts[k]) \div 100 : k \in 1..Len(pcts)}
    IN  Take(SortAsc(sizes), n)

generateTestSizes(strategy, minS, maxS, n) ==
    IF strategy = "stepped" THEN SteppedSizes(minS, maxS, n)
    ELSE OptimalSizes(minS, maxS, n)

\* toNumber(sizeSOL, tokenA.decimals): the raw amount of a size.
toNumber(sizeSOL) == sizeSOL * RawPerSizeUnit

\* A slip that accepts a probe on any one criterion.
ProbeSuccessAny(meetsPct, meetsUSD, meetsImpact) ==
    meetsPct \/ meetsUSD \/ meetsImpact

\* success = meetsPercentThreshold && meetsUSDThreshold && acceptablePriceImpact
ProbeSuccess(meetsPct, meetsUSD, meetsImpact) ==
    meetsPct /\ meetsUSD /\ meetsImpact

\* testTriangularRoute: the two leg quotes of one probe and its acceptance
\* flags.  A thrown quote error is caught and gives success = false.
\* A NaN size gives the amount string "NaN", for which no quote exists.
testTriangularRoute(cfg, sizeSOL, q1, q2, solPriceUSD) ==
    LET sizeRaw == toNumber(sizeSOL)
    IN
    IF sizeSOL = NaN \/ ~q1.ok \/ ~q2.ok
    THEN [success |-> FALSE, sizeSOL |-> sizeSOL, quoted |-> FALSE,
          profitPercent |-> 0, profitUSD |-> 0, totalPriceImpact |-> 0,
          meetsPercentThreshold |-> FALSE, meetsUSDThreshold |-> FALSE,
          acceptablePriceImpact |-> FALSE]
    ELSE
    LET inputAmount   == sizeRaw
        outputAmount  == sizeRaw + q2.delta
        profitAmount  == outputAmount - inputAmount
        profitPercent == TruncDiv(profitAmount * 10000, inputAmount)
        profitUSD     == profitPercent * sizeSOL * solPriceUSD
        totalImpact   == q1.impact + q2.impact
        meetsPct      == profitPercent >= cfg.minProfitThreshold
        meetsUSD      == profitUSD >= cfg.minProfitUSD
        meetsImpact   == totalImpact <= cfg.maxPriceImpact
    IN  [success |-> ProbeSuccess(meetsPct, meetsUSD, meetsImpact),
         sizeSOL |-> sizeSOL, quoted |-> TRUE,
         profitPercent |-> profitPercent, profitUSD |-> profitUSD,
         totalPriceImpact |-> totalImpact,
         meetsPercentThreshold |-> meetsPct, meetsUSDThreshold |-> meetsUSD,
         acceptablePriceImpact |-> meetsImpact]

RECURSIVE GCD(_, _)
GCD(a, b) == IF b = 0 THEN a ELSE GCD(b, a % b)
LCM(a, b) == (a \div GCD(a, b)) * b

\* The score of analyzeResults, times 10 * ScoreScale(cfg):
\*   0.4 profitUSD/minProfitUSD + 0.3 profitPercent/minProfitThreshold
\* + 0.2 totalValue/(maxTradeSize * price) + 0.1 max(0, 1 - impact/maxImpact)
ScoreScale(cfg) ==
    LCM(LCM(cfg.minProfitUSD, cfg.minProfitThreshold),
        LCM(cfg.maxTradeSize, cfg.maxPriceImpact))

Score(cfg, r) ==
    LET L   == ScoreScale(cfg)
        pen == IF cfg.maxPriceImpact - r.totalPriceImpact > 0
               THEN cfg.maxPriceImpact - r.totalPriceImpact ELSE 0
    IN    4 * r.profitUSD * (L \div cfg.minProfitUSD)
        + 3 * r.profitPercent * (L \div cfg.minProfitThreshold)
        + 2 * r.sizeSOL * (L \div cfg.maxTradeSize)
        + pen * (L \div cfg.maxPriceImpact)

\* analyzeResults: null for no results, else the first element of the
\* results after a stable sort by descending score.
analyzeResults(cfg, results) ==
    IF Len(results) = 0 THEN None
    ELSE LET best == CHOOSE i \in 1..Len(results) :
                        \A j \in 1..Len(results) :
                           \/ Score(cfg, results[i]) > Score(cfg, results[j])
                           \/ /\ Score(cfg, results[i]) = Score(cfg, results[j])
                              /\ i <= j
         IN  results[best]

\* ------------------------------------------------------------------------
\* State
\* ------------------------------------------------------------------------

VARIABLES
    \* DynamicTradeSizer (one findOptimalTradeSize call)
    sizerCfg,            \* the fields the constructor reads from the env
    solPriceUSD,         \* the anchor price handed to findOptimalTradeSize
    sizerPc,             \* "idle", "probing", "returned"
    testSizes,           \* generateTestSizes()
    probeIdx,            \* the for-loop index i (1-based)
    results,             \* the successful probes pushed so far
    optimal,             \* the value findOptimalTradeSize returned
    performanceHistory,  \* the pair's entry of this.performanceHistory
    probeLog             \* history: what the probes so far looked like

sizerVars == << sizerCfg, solPriceUSD, sizerPc, testSizes, probeIdx, results,
                optimal, performanceHistory, probeLog >>

VARIABLES
    \* The bot process (src/src/bot/index.js, cache.js)
    phase,               \* "startup", "running", "exited"
    envTradingEnabled,   \* process.env.TRADING_ENABLED === 'true'
    tradingEnabled,      \* cache.tradingEnabled
    envMaxTradeSize,     \* process.env.MAX_TRADE_SIZE_SOL, as a raw amount
    realBalanceTokenA,   \* the anchor balance read at startup (raw)
    swappingRightNow,    \* cache.swappingRightNow
    iteration,           \* cache.iteration
    tradeCounter,        \* cache.tradeCounter.buy
    started,             \* firings of the watcher interval so far
    ticks,               \* per slot: one watcher invocation and its locals
    tickProbed,          \* history: sizes the ticks' scans have probed
    liveCalls,           \* history: transport / exchange functions invoked
    isShuttingDown,      \* globalErrorHandler.isShuttingDown
    hotkeys,             \* cache.hotkeys: the one-shot flags e and r
    balanceLookup        \* history: what the startup balance lookup gave

loopVars == << phase, envTradingEnabled, tradingEnabled, envMaxTradeSize,
               realBalanceTokenA, swappingRightNow, iteration, tradeCounter,
               started, ticks, tickProbed, liveCalls, isShuttingDown,
               hotkeys, balanceLookup >>

\* The bot's variables other than cache.iteration.
loopRest == << phase, envTradingEnabled, tradingEnabled, envMaxTradeSize,
               realBalanceTokenA, swappingRightNow, tradeCounter, started,
               ticks, tickProbed, liveCalls, isShuttingDown, hotkeys,
               balanceLookup >>

VARIABLES
    cb,                  \* rateLimiter.circuitBreaker
    now,                 \* Date.now()
    calls,               \* each call of getQuoteWithCircuitBreaker
    quoteRequests,       \* history: calls handed to getQuoteWithRateLimit
    cbLog                \* history: failures in a row, opening time, trial

cbVars == << cb, now, calls, quoteRequests, cbLog >>

VARIABLES
    rlNow,               \* Date.now() as jupiterApiClient sees it
    lastRequestTime,     \* jupiterApiClient: lastRequestTime
    requestCount,        \* jupiterApiClient: requestCount
    requestResetTime,    \* jupiterApiClient: requestResetTime
    rlWaiters,           \* callers inside a delay(), in timer order
    rlLog                \* history: requests made and dispatched

rlVars == << rlNow, lastRequestTime, requestCount, requestResetTime,
             rlWaiters, rlLog >>

VARIABLES
    mevCall              \* the last executeProtectedTransaction call

mevVars == << mevCall >>

VARIABLES
    ring,                \* INTERMEDIATE_TOKENS
    runTokenB,           \* run: the closure variable tokenB
    manualRotation,      \* cache.manualRotation
    tokenRotationList,   \* cache.tokenRotationList
    currentRotationIndex,\* cache.currentRotationIndex
    scans,               \* each watcher invocation's own tokenB and its uses
    rotLog               \* history: the firings of rotateIntermediateToken

rotVars == << ring, runTokenB, manualRotation, tokenRotationList,
              currentRotationIndex, scans, rotLog >>

VARIABLES
    solPrice,            \* priceFeedService.solPrice, in cents
    priceUpdates,        \* the updateSOLPrice calls in flight
    priceLog             \* history: what the finished updates did

priceVars == << solPrice, priceUpdates, priceLog >>

VARIABLES
    analysis             \* one call of analyzeResults: its argument and value

analyzeVars == << analysis >>

VARIABLES
    quoteCall            \* one call of getQuote of jupiterApiClient

quoteVars == << quoteCall >>

VARIABLES
    qNow,                \* Date.now() as the RateLimiter sees it
    limiter,             \* requestCount, lastReset, lastRequestTime
    requestQueue,        \* RateLimiter.requestQueue
    processing,          \* RateLimiter.processing
    worker,              \* the running processQueue: position and locals
    queueLog             \* history: what became of each request

queueVars == << qNow, limiter, requestQueue, processing, worker, queueLog >>

VARIABLES
    perfResults,         \* per pair: performanceHistory entry's results
    perfPushed           \* history: samples pushed per pair so far

perfVars == << perfResults, perfPushed >>

VARIABLES
    priceNow,            \* Date.now() as the price feed sees it
    lastPriceUpdate,     \* PriceFeedService.lastPriceUpdate
    otherUpdate,         \* an updateSOLPrice of the timer or another caller
    reader               \* a live execution and its price read after leg 2

freshVars == << priceNow, lastPriceUpdate, otherUpdate, reader >>

VARIABLES
    \* GlobalErrorHandler (src/src/utils/globalErrorHandler.js)
    errNow,              \* Date.now()
    errorCount,          \* this.errorCount
    lastErrorTime,       \* this.lastErrorTime
    exitTimer,           \* "none", "armed" by emergencyShutdown, "exited"
    errLog               \* history: the errors delivered, [kind, at, shut]

errVars == << errNow, errorCount, lastErrorTime, exitTimer, errLog >>

\* The subsystems beside the sizer, the bot loop and the breaker.
auxVars == << rlVars, mevVars, rotVars, priceVars, analyzeVars, quoteVars,
        queueVars,
        perfVars,
        freshVars,
        errVars >>

vars == << sizerVars, loopVars, cbVars, auxVars >>

\* ------------------------------------------------------------------------
\* DynamicTradeSizer: findOptimalTradeSize
\* ------------------------------------------------------------------------

SizerConfigs ==
    {[strategy |-> st, testCount |-> n, minTradeSize |-> mn,
      maxTradeSize |-> mn + sp, minProfitThreshold |-> MinProfitThresholdBp,
      minProfitUSD |-> mu, maxPriceImpact |-> MaxPriceImpactPct] :
        st \in Strategies, n \in TestCounts, mn \in MinTradeSizes,
        sp \in TradeSizeSpans, mu \in MinProfitUSDs}

SizerIdle ==
    /\ sizerPc = "idle"
    /\ testSizes = << >>
    /\ probeIdx = 0
    /\ results = << >>
    /\ optimal = None
    /\ performanceHistory = None
    /\ probeLog = [probed |-> {}, eligible |-> FALSE, flat |-> TRUE]

Slots == 1..MaxTicks

\* sends is the tick's history of leg submissions and their outcomes;
\* thrown is where an exception raised in the tick ended up.
IdleTick == [pc |-> "idle", candidate |-> None, acquired |-> FALSE,
             result |-> None, sends |-> << >>, thrown |-> "none"]

\* cache.hotkeys as cache.js creates it.
NoKeys == [e |-> FALSE, r |-> FALSE]

\* The bot process is not part of the sizer's own specification.
LoopIdle ==
    /\ phase = "off"
    /\ envTradingEnabled = FALSE
    /\ tradingEnabled = FALSE
    /\ envMaxTradeSize = 0
    /\ realBalanceTokenA = 0
    /\ swappingRightNow = FALSE
    /\ iteration = 0
    /\ tradeCounter = [success |-> 0, fail |-> 0]
    /\ started = 0
    /\ ticks = [t \in Slots |-> IdleTick]
    /\ tickProbed = {}
    /\ liveCalls = {}
    /\ isShuttingDown = FALSE
    /\ hotkeys = NoKeys
    /\ balanceLookup = 0

CallIds == 1..MaxCalls

NoCall == [status |-> "none", duringTrial |-> FALSE]

\* The breaker as the first call creates it; no call made yet.
BreakerIdle ==
    /\ cb = [failures |-> 0, lastFailure |-> 0, isOpen |-> FALSE]
    /\ now = 0
    /\ calls = [c \in CallIds |-> NoCall]
    /\ quoteRequests = {}
    /\ cbLog = [consec |-> 0, openedAt |-> 0, trial |-> 0]

\* jupiterApiClient is loaded at LoadTime; lastRequestTime starts at the epoch.
LoadTime == 100000

LimiterIdle ==
    /\ rlNow = LoadTime
    /\ lastRequestTime = 0
    /\ requestCount = 0
    /\ requestResetTime = LoadTime
    /\ rlWaiters = << >>
    /\ rlLog = [requests |-> 0, dispatched |-> 0, lastAt |-> 0,
                gapOk |-> TRUE, winStart |-> 0, winCount |-> 0]

\* No transaction handed to the MEV protector yet.
TransportIdle == mevCall = None

INTERMEDIATE_TOKENS == << "USDC", "USDT", "ETH", "JUP" >>

\* null where a token is expected.
NoToken == "null"

IdleScan == [pc |-> "idle", tokenB |-> NoToken, firedWith |-> NoToken,
             used |-> {}]

RotationIdle ==
    /\ ring = INTERMEDIATE_TOKENS
    /\ runTokenB = "USDC"
    /\ manualRotation = FALSE
    /\ tokenRotationList = << >>
    /\ currentRotationIndex = 0
    /\ scans = [t \in Slots |-> IdleScan]
    /\ rotLog = [parity |-> 0, error |-> FALSE]

UpdateSlots == 1..MaxUpdates

\* constructor: this.solPrice = 100, the default fallback price.
DefaultSolPrice == 10000

PriceFeedIdle ==
    /\ solPrice = DefaultSolPrice
    /\ priceUpdates = [u \in UpdateSlots |-> FALSE]
    /\ priceLog = [parity |-> 0, last |-> "none", seen |-> {}]

AnalysisIdle == analysis = None

\* log has one entry per HTTP attempt that failed.
IdleQuoteCall == [pc |-> "idle", retryCount |-> 0, backoff |-> 0,
                  elapsed |-> 0, log |-> << >>]

QuoteIdle == quoteCall = IdleQuoteCall

\* The requests the model hands to queueRequest.
RequestIds == 1..MaxQueued

\* The clock of the model starts well after the epoch, as Date.now() does.
QueueEpoch == 100000

\* No processQueue loop is running: its position, its locals, and the
\* number of loops under way.
IdleWorker == [pc |-> "idle", now |-> 0, wake |-> 0, cur |-> 0, loops |-> 0]

NotQueued == [state |-> "none", waited |-> 0, invoked |-> FALSE]

\* The pairs whose performance entries are followed.
PerfPairs == {"SOL-USDC", "SOL-USDT"}

\* A pair without an entry in performanceHistory.
NoEntry == << -1 >>

PerfIdle ==
    /\ perfResults = [p \in PerfPairs |-> NoEntry]
    /\ perfPushed = [p \in PerfPairs |-> 0]

\* The clock of the price feed starts well after the epoch.
PriceEpoch == 100000

IdleReader == [pc |-> "idle", startPrice |-> 0, stale |-> FALSE,
               fanouts |-> 0, price |-> 0]

FreshIdle ==
    /\ priceNow = PriceEpoch
    /\ lastPriceUpdate = 0
    /\ otherUpdate = FALSE
    /\ reader = IdleReader

\* The clock of the error handler starts well after the epoch.
ErrEpoch == 100000

ErrIdle ==
    /\ errNow = ErrEpoch
    /\ errorCount = 0
    /\ lastErrorTime = 0
    /\ exitTimer = "none"
    /\ errLog = << >>

QueueIdle ==
    /\ qNow = QueueEpoch
    /\ limiter = [requestCount |-> 0, lastReset |-> QueueEpoch,
                  lastRequestTime |-> 0]
    /\ requestQueue = << >>
    /\ processing = FALSE
    /\ worker = IdleWorker
    /\ queueLog = [r \in RequestIds |-> NotQueued]

AuxIdle ==
    /\ LimiterIdle
    /\ TransportIdle
    /\ RotationIdle
    /\ PriceFeedIdle
    /\ AnalysisIdle
    /\ QuoteIdle
    /\ QueueIdle
    /\ PerfIdle
    /\ FreshIdle
    /\ ErrIdle

SizerInit ==
    /\ sizerCfg \in SizerConfigs
    /\ solPriceUSD \in SolPrices
    /\ SizerIdle
    /\ LoopIdle
    /\ BreakerIdle
    /\ AuxIdle

\* storePerformanceData(tokenPair, result)
storePerformanceData(history, result) ==
    LET h0 == IF history = None
              THEN [nResults |-> 0, bestSize |-> result.sizeSOL,
                    bestProfit |-> result.profitPercent,
                    lastOptimal |-> result.sizeSOL]
              ELSE history
        n  == IF h0.nResults + 1 > 100 THEN 100 ELSE h0.nResults + 1
    IN  [nResults    |-> n,
         bestSize    |-> IF result.profitPercent > h0.bestProfit
                         THEN result.sizeSOL ELSE h0.bestSize,
         bestProfit  |-> IF result.profitPercent > h0.bestProfit
                         THEN result.profitPercent ELSE h0.bestProfit,
         lastOptimal |-> result.sizeSOL]

\* findOptimalTradeSize up to its first await: the test sizes are generated.
SizerStart ==
    /\ sizerPc = "idle"
    /\ testSizes' = generateTestSizes(sizerCfg.strategy, sizerCfg.minTradeSize,
                                      sizerCfg.maxTradeSize, sizerCfg.testCount)
    /\ probeIdx' = 1
    /\ results' = << >>
    /\ sizerPc' = "probing"
    /\ UNCHANGED << sizerCfg, solPriceUSD, optimal, performanceHistory, probeLog >>
    /\ UNCHANGED << loopVars, cbVars, auxVars >>

\* results.push(result) only for result.success
PushIfSuccess(rs, r) == IF r.success THEN Append(rs, r) ELSE rs

\* One iteration of the probing loop: testTriangularRoute for testSizes[i]
\* with the two quotes the aggregator hands back; after the last size the
\* results are analysed and the function returns.
SizerProbe ==
    /\ sizerPc = "probing"
    /\ probeIdx <= Len(testSizes)
    /\ \E q1 \in Leg1Quotes, q2 \in Leg2Quotes :
         LET size == testSizes[probeIdx]
             r    == testTriangularRoute(sizerCfg, size, q1, q2, solPriceUSD)
             rs   == PushIfSuccess(results, r)
             last == probeIdx = Len(testSizes)
             best == analyzeResults(sizerCfg, rs)
         IN  /\ results' = rs
             /\ probeLog' =
                  [probed   |-> probeLog.probed \cup {size},
                   eligible |-> probeLog.eligible \/
                       ( /\ r.quoted
                         /\ r.profitPercent >= sizerCfg.minProfitThreshold
                         /\ r.profitUSD >= sizerCfg.minProfitUSD
                         /\ r.totalPriceImpact <= sizerCfg.maxPriceImpact ),
                   flat     |-> probeLog.flat /\ q1.ok /\ q2.ok /\ q2.delta = 0]
             /\ probeIdx' = probeIdx + 1
             /\ IF last
                THEN /\ sizerPc' = "returned"
                     /\ optimal' = best
                     /\ performanceHistory' =
                          IF best = None THEN performanceHistory
                          ELSE storePerformanceData(performanceHistory, best)
                ELSE UNCHANGED << sizerPc, optimal, performanceHistory >>
    /\ UNCHANGED << sizerCfg, solPriceUSD, testSizes >>
    /\ UNCHANGED << loopVars, cbVars, auxVars >>

SizerNext == SizerStart \/ SizerProbe

SpecSizer == SizerInit /\ [][SizerNext]_vars

\* ------------------------------------------------------------------------
\* Claims about the DynamicTradeSizer (checked under SpecSizer)
\* ------------------------------------------------------------------------

\* C7: every size probed by findOptimalTradeSize, under either strategy and
\* any test count N >= 1, lies within [minTradeSize, maxTradeSize].
C7_ProbesWithinBounds ==
    \A s \in probeLog.probed :
        NumLeq(sizerCfg.minTradeSize, s) /\ NumLeq(s, sizerCfg.maxTradeSize)

\* C34: every probe size produced by generateTestSizes, for the stepped and
\* for the optimal strategy, is rounded to 4 decimals (is a whole multiple
\* of 0.0001).  The NaN of a single stepped test is left aside here.
C34_SizesRoundedTo4Decimals ==
    \A i \in DOMAIN testSizes :
        testSizes[i] # NaN => testSizes[i] % RoundUnit = 0

\* C8: findOptimalTradeSize returns a candidate only if that probe met the
\* percent, the USD and the price-impact criterion; it returns null when no
\* probe met all three, in particular when every round trip returned exactly
\* its input amount.
C8_CandidateMeetsAllThresholds ==
    sizerPc = "returned" =>
        /\ optimal # None =>
             /\ optimal.sizeSOL \in probeLog.probed
             /\ optimal.profitPercent >= sizerCfg.minProfitThreshold
             /\ optimal.profitUSD >= sizerCfg.minProfitUSD
             /\ optimal.totalPriceImpact <= sizerCfg.maxPriceImpact
        /\ ~probeLog.eligible => optimal = None
        /\ probeLog.flat => optimal = None

\* A call that returned a candidate although another probe was rejected.
C8_Witness ==
    /\ sizerPc = "returned"
    /\ optimal # None
    /\ Cardinality(probeLog.probed) > Len(results)

\* ------------------------------------------------------------------------
\* The bot process: startup (run) and the watcher ticks
\* ------------------------------------------------------------------------

\* The sizer singleton of the running bot: built when the module is loaded,
\* from the environment as configured.
LoopSizerCfg ==
    [strategy |-> "optimal", testCount |-> 2, minTradeSize |-> 10,
     maxTradeSize |-> 30, minProfitThreshold |-> MinProfitThresholdBp,
     minProfitUSD |-> 15000, maxPriceImpact |-> MaxPriceImpactPct]

\* Anchor balances (raw) the wallet can hold at startup; 0 is also what
\* balanceCheck returns when every RPC fails.
AnchorBalances == {0, 155, 300}

\* Realized profit (basis points) of a live round trip whose legs succeeded.
\* A txid is modelled by its prefix: "simulation_", "failed_", or "live" for
\* the signature of leg 2.
RealizedProfits == {-50, 40}

Init ==
    /\ sizerCfg = LoopSizerCfg
    /\ solPriceUSD \in SolPrices
    /\ SizerIdle
    /\ phase = "startup"
    /\ envTradingEnabled \in BOOLEAN
    /\ tradingEnabled = envTradingEnabled
    /\ envMaxTradeSize = toNumber(sizerCfg.maxTradeSize)
    /\ realBalanceTokenA = 0
    /\ swappingRightNow = FALSE
    /\ iteration = 0
    /\ tradeCounter = [success |-> 0, fail |-> 0]
    /\ started = 0
    /\ ticks = [t \in Slots |-> IdleTick]
    /\ tickProbed = {}
    /\ liveCalls = {}
    /\ isShuttingDown = FALSE
    /\ hotkeys = NoKeys
    /\ balanceLookup = 0
    /\ BreakerIdle
    /\ AuxIdle

\* tryMultipleRPCs threw: no endpoint answered the balance lookup.
RpcFailed == -3

\* What the balance lookup can give at startup.
BalanceLookups == AnchorBalances \cup {RpcFailed}

\* balanceCheck: the balance read, or 0 when it is zero or every RPC failed.
balanceCheck(lookup) ==
    IF lookup = RpcFailed THEN 0
    ELSE IF lookup > 0 THEN lookup ELSE 0

\* checkTokenABalance forcing simulation mode on a zero balance only.
checkTokenABalanceZeroOnly(te, realBalance, requiredAmount) ==
    IF realBalance = 0 THEN FALSE ELSE te

\* checkTokenABalance: what it leaves in cache.tradingEnabled.
checkTokenABalance(te, realBalance, requiredAmount) ==
    IF realBalance < requiredAmount /\ realBalance > 0 THEN FALSE
    ELSE IF realBalance = 0 THEN FALSE
    ELSE te

\* A startup that never looks at the balance.
RunBalanceCheckSkipped(te, realBalance, requiredAmount) == te

\* run, "Check wallet balance": cache.tradingEnabled after the check.
RunBalanceCheck(te, realBalance, requiredAmount) ==
    LET te2 == checkTokenABalance(te, realBalance, requiredAmount)
    IN  IF realBalance < requiredAmount /\ realBalance > 0 THEN te2
        ELSE IF realBalance = 0 THEN FALSE
        ELSE te2

\* run, "Adjust maximum trade size to available balance":
\* process.env.MAX_TRADE_SIZE_SOL after the check (Math.floor(balance * 0.9)).
RunMaxTradeSize(envMax, realBalance, requiredAmount) ==
    IF realBalance < requiredAmount /\ realBalance > 0
    THEN (realBalance * 9) \div 10
    ELSE envMax

\* run up to the start of the watcher interval.  setup() can itself force
\* simulation mode (fee balance too low, aggregator unreachable).
Startup ==
    /\ phase = "startup"
    /\ \E lookup \in BalanceLookups, setupOk \in BOOLEAN :
         LET required    == toNumber(sizerCfg.maxTradeSize)
             te          == IF setupOk THEN tradingEnabled ELSE FALSE
             realBalance == balanceCheck(lookup)
         IN  /\ balanceLookup' = lookup
             /\ realBalanceTokenA' = realBalance
             /\ tradingEnabled' = RunBalanceCheck(te, realBalance, required)
             /\ envMaxTradeSize' =
                    RunMaxTradeSize(envMaxTradeSize, realBalance, required)
    /\ phase' = "running"
    /\ UNCHANGED << envTradingEnabled, swappingRightNow, iteration,
                    tradeCounter, started, ticks, tickProbed, liveCalls,
                    isShuttingDown, hotkeys >>
    /\ UNCHANGED << sizerVars, cbVars, auxVars >>

\* The entry point's handler with process.exit taken out: the process
\* lives on while performGracefulShutdown waits.
shutdownReturns(p) == p

\* shutdown of the entry point: process.exit(0) before the handler returns.
shutdown(p) == "exited"

\* SIGINT / SIGTERM: both listeners run in the same turn of the event loop.
\* gracefulShutdown marks the shutdown and disables trading, then the entry
\* point's own handler calls process.exit.
Signal ==
    /\ phase = "running"
    /\ ~isShuttingDown
    /\ isShuttingDown' = TRUE
    /\ tradingEnabled' = FALSE
    /\ phase' = shutdown(phase)
    /\ UNCHANGED << envTradingEnabled, envMaxTradeSize, realBalanceTokenA,
                    swappingRightNow, iteration, tradeCounter, started, ticks,
                    tickProbed, liveCalls, hotkeys, balanceLookup >>
    /\ UNCHANGED << sizerVars, cbVars, auxVars >>

\* What findOptimalTradeSize can return besides null: any probe of a test
\* size that met the three criteria.
Candidates(cfg, price) ==
    LET sizes  == generateTestSizes(cfg.strategy, cfg.minTradeSize,
                                    cfg.maxTradeSize, cfg.testCount)
        probes == {testTriangularRoute(cfg, sz, q1, q2, price) :
                       sz \in Range(sizes), q1 \in Leg1Quotes, q2 \in Leg2Quotes}
    IN  {[sizeSOL |-> r.sizeSOL, profitPercent |-> r.profitPercent,
          profitUSD |-> r.profitUSD] : r \in {x \in probes : x.success}}

\* if (cache.tradingEnabled) { real trades } else { simulation }
LiveBranchAlways(te) == TRUE
LiveBranch(te) == te

\* Cleanup that runs only when the execution did not throw.
ExecutionCleanupNoFinally(flag, threw) == IF threw THEN flag ELSE FALSE

\* cache.swappingRightNow after an execution: the finally of the execution
\* try and the finally of the strategy both store false.
ExecutionCleanup(flag, threw) == FALSE

\* cache.swappingRightNow after a tick that did not execute: the finally of
\* the strategy stores false.
OuterFinally(flag) == FALSE

ExecPcs == {"mev", "leg1", "settle", "leg2", "price2", "monitor"}

SetTick(t, rec) == ticks' = [ticks EXCEPT ![t] = rec]

LoopFrame == UNCHANGED << phase, envTradingEnabled, tradingEnabled,
                          envMaxTradeSize, realBalanceTokenA, started,
                          isShuttingDown, balanceLookup >>

\* The key listener of the terminal UI: pressing E or R sets the flag.
HotkeyPressed(k) ==
    /\ phase = "running"
    /\ ~hotkeys[k]
    /\ hotkeys' = [hotkeys EXCEPT ![k] = TRUE]
    /\ UNCHANGED << phase, envTradingEnabled, tradingEnabled, envMaxTradeSize,
                    realBalanceTokenA, swappingRightNow, iteration,
                    tradeCounter, started, ticks, tickProbed, liveCalls,
                    isShuttingDown, balanceLookup >>
    /\ UNCHANGED << sizerVars, cbVars, auxVars >>

\* The guard with a hotkey outside the lock test.
ExecutionGuardForced(swapping, keys, profitPercent) ==
    keys.e \/ keys.r \/ (~swapping /\ profitPercent > 0)

\* The execution guard of the strategy: the lock is free, and a hotkey is
\* set or the candidate's profit is positive.
ExecutionGuard(swapping, keys, profitPercent) ==
    ~swapping /\ (keys.e \/ keys.r \/ profitPercent > 0)

\* The watcher interval fires: a new invocation runs up to its first await
\* (getCurrentSOLPrice).  Nothing keeps it from firing while earlier
\* invocations are still awaiting.
StartTick(t) ==
    /\ phase = "running"
    /\ ticks[t].pc \in {"idle", "done"}
    /\ started < MaxStarted
    /\ started' = started + 1
    /\ SetTick(t, [IdleTick EXCEPT !.pc = "price"])
    /\ UNCHANGED << phase, envTradingEnabled, tradingEnabled, envMaxTradeSize,
                    realBalanceTokenA, swappingRightNow, iteration,
                    tradeCounter, tickProbed, liveCalls, isShuttingDown,
                    hotkeys, balanceLookup >>
    /\ UNCHANGED << sizerVars, cbVars, auxVars >>

\* The catch of the watcher: it logs the error and calls
\* healthMonitor.recordError, which HealthMonitor does not define, so the
\* catch block itself throws and the invocation's promise rejects.
watcherCatch == "escaped"

\* The bot's unhandledRejection handler: it logs and clears the swap flag.
unhandledRejection(flag) == FALSE

\* The price arrived: dynamicTriangularArbitrageStrategy starts and runs up
\* to the first quote of findOptimalTradeSize.  A statement between the
\* watcher's try and the strategy's try that throws is not covered by the
\* strategy's handlers and reaches the watcher's catch.
PriceRead(t) ==
    /\ phase = "running"
    /\ ticks[t].pc = "price"
    /\ iteration' = iteration + 1
    /\ \E preThrows \in BOOLEAN :
         IF preThrows
         THEN /\ SetTick(t, [ticks[t] EXCEPT !.pc = "done",
                                             !.thrown = watcherCatch])
              /\ swappingRightNow' =
                     IF watcherCatch = "escaped"
                     THEN unhandledRejection(swappingRightNow)
                     ELSE swappingRightNow
              /\ UNCHANGED tickProbed
         ELSE /\ SetTick(t, [ticks[t] EXCEPT !.pc = "scan"])
              /\ tickProbed' = tickProbed \cup
                     Range(generateTestSizes(sizerCfg.strategy,
                                             sizerCfg.minTradeSize,
                                             sizerCfg.maxTradeSize,
                                             sizerCfg.testCount))
              /\ UNCHANGED swappingRightNow
    /\ LoopFrame
    /\ UNCHANGED hotkeys
    /\ UNCHANGED << tradeCounter, liveCalls >>
    /\ UNCHANGED << sizerVars, cbVars, auxVars >>

\* Bookkeeping after an execution whose legs did not throw: the counters;
\* an exception in the bookkeeping is caught and counted as a failed trade.
Bookkeeping(counter, actualProfit, bookThrows) ==
    IF bookThrows \/ actualProfit <= 0
    THEN [counter EXCEPT !.fail = @ + 1]
    ELSE [counter EXCEPT !.success = @ + 1]

\* findOptimalTradeSize returned.  No candidate, or a profit under the USD
\* floor: return.  Otherwise the execution guard; in simulation mode the
\* whole execution is synchronous.
ScanDone(t) ==
    /\ phase = "running"
    /\ ticks[t].pc = "scan"
    /\ \E cand \in {None} \cup Candidates(sizerCfg, solPriceUSD),
          bookThrows \in BOOLEAN :
         IF cand = None
         THEN /\ SetTick(t, [ticks[t] EXCEPT !.pc = "done"])
              /\ swappingRightNow' = OuterFinally(swappingRightNow)
              /\ UNCHANGED << tradeCounter, liveCalls, hotkeys >>
         ELSE IF cand.profitUSD < sizerCfg.minProfitUSD
         THEN /\ SetTick(t, [ticks[t] EXCEPT !.pc = "done", !.candidate = cand])
              /\ swappingRightNow' = OuterFinally(swappingRightNow)
              /\ UNCHANGED << tradeCounter, liveCalls, hotkeys >>
         ELSE IF ExecutionGuard(swappingRightNow, hotkeys,
                                cand.profitPercent)
         THEN IF LiveBranch(tradingEnabled)
              THEN /\ SetTick(t, [ticks[t] EXCEPT !.pc = "mev",
                                     !.candidate = cand, !.acquired = TRUE])
                   /\ swappingRightNow' = TRUE
                   /\ hotkeys' = NoKeys
                   /\ liveCalls' = liveCalls \cup {"applyMEVProtection"}
                   /\ UNCHANGED tradeCounter
              ELSE /\ SetTick(t, [ticks[t] EXCEPT !.pc = "done",
                                     !.candidate = cand, !.acquired = TRUE,
                                     !.result =
                                        [txid |-> "simulation_",
                                         mode |-> "SIMULATION",
                                         actualProfit |-> cand.profitPercent,
                                         actualProfitUSD |-> cand.profitUSD],
                                     !.thrown = IF bookThrows
                                                THEN "tradeExecutionError"
                                                ELSE "none"])
                   /\ tradeCounter' =
                        Bookkeeping(tradeCounter, cand.profitPercent, bookThrows)
                   /\ swappingRightNow' = ExecutionCleanup(TRUE, bookThrows)
                   /\ hotkeys' = NoKeys
                   /\ UNCHANGED liveCalls
         ELSE /\ SetTick(t, [ticks[t] EXCEPT !.pc = "done", !.candidate = cand])
              /\ swappingRightNow' = OuterFinally(swappingRightNow)
              /\ UNCHANGED << tradeCounter, liveCalls, hotkeys >>
    /\ LoopFrame
    /\ UNCHANGED << iteration, tickProbed >>
    /\ UNCHANGED << sizerVars, cbVars, auxVars >>

\* A live leg failed or threw: the inner catch counts a failed trade and
\* rethrows, the outer catch counts it again, the finally blocks run.
LegFailed(t, leg) ==
    /\ SetTick(t, [ticks[t] EXCEPT !.pc = "done",
                      !.sends = Append(@, leg \o "_failed"),
                      !.thrown = "tradeExecutionError",
                      !.result = [txid |-> "failed_", mode |-> "LIVE",
                                  actualProfit |-> -10000,
                                  actualProfitUSD |-> 0]])
    /\ tradeCounter' = [tradeCounter EXCEPT !.fail = @ + 2]
    /\ swappingRightNow' = ExecutionCleanup(swappingRightNow, TRUE)
    /\ UNCHANGED liveCalls

\* applyMEVProtection returned (it never throws): leg 1 is built and sent.
MevDone(t) ==
    /\ phase = "running"
    /\ ticks[t].pc = "mev"
    /\ SetTick(t, [ticks[t] EXCEPT !.pc = "leg1",
                                    !.sends = Append(@, "leg1")])
    /\ liveCalls' = liveCalls \cup {"exchange.execute",
                                    "executeProtectedTransaction"}
    /\ LoopFrame
    /\ UNCHANGED hotkeys
    /\ UNCHANGED << swappingRightNow, iteration, tradeCounter, tickProbed >>
    /\ UNCHANGED << sizerVars, cbVars, auxVars >>

\* The check of a leg's result with the throw taken out.
LegContinuesAlways(ok) == TRUE

\* `if (!txResult.success) throw`: only a successful leg lets the execution
\* go on; a thrown exchange or execute call fails the leg the same way.
LegContinues(ok) == ok

\* Leg 1 came back: success starts the settle pause.
Leg1Done(t) ==
    /\ phase = "running"
    /\ ticks[t].pc = "leg1"
    /\ \E ok \in BOOLEAN :
         IF LegContinues(ok)
         THEN /\ SetTick(t, [ticks[t] EXCEPT !.pc = "settle",
                                 !.sends = Append(@, IF ok THEN "leg1_ok"
                                                     ELSE "leg1_failed")])
              /\ UNCHANGED << swappingRightNow, tradeCounter, liveCalls >>
         ELSE LegFailed(t, "leg1")
    /\ LoopFrame
    /\ UNCHANGED hotkeys
    /\ UNCHANGED << iteration, tickProbed >>
    /\ UNCHANGED << sizerVars, cbVars, auxVars >>

\* The settle pause elapsed: leg 2 is built and sent.
SettleDone(t) ==
    /\ phase = "running"
    /\ ticks[t].pc = "settle"
    /\ SetTick(t, [ticks[t] EXCEPT !.pc = "leg2",
                                    !.sends = @ \o << "settled", "leg2" >>])
    /\ LoopFrame
    /\ UNCHANGED hotkeys
    /\ UNCHANGED << swappingRightNow, iteration, tradeCounter, tickProbed,
                    liveCalls >>
    /\ UNCHANGED << sizerVars, cbVars, auxVars >>

\* Leg 2 came back: success asks for the current anchor price.
Leg2Done(t) ==
    /\ phase = "running"
    /\ ticks[t].pc = "leg2"
    /\ \E ok \in BOOLEAN :
         IF LegContinues(ok)
         THEN /\ SetTick(t, [ticks[t] EXCEPT !.pc = "price2",
                                 !.sends = Append(@, IF ok THEN "leg2_ok"
                                                     ELSE "leg2_failed")])
              /\ UNCHANGED << swappingRightNow, tradeCounter, liveCalls >>
         ELSE LegFailed(t, "leg2")
    /\ LoopFrame
    /\ UNCHANGED hotkeys
    /\ UNCHANGED << iteration, tickProbed >>
    /\ UNCHANGED << sizerVars, cbVars, auxVars >>

\* The fresh price arrived: the realized profit is computed from leg 2's
\* output and monitorMEVAttack is awaited.
Price2Done(t) ==
    /\ phase = "running"
    /\ ticks[t].pc = "price2"
    /\ \E actual \in RealizedProfits :
         SetTick(t, [ticks[t] EXCEPT !.pc = "monitor",
                        !.result = [txid |-> "live", mode |-> "LIVE",
                                    actualProfit |-> actual,
                                    actualProfitUSD |->
                                        actual * ticks[t].candidate.sizeSOL
                                               * solPriceUSD]])
    /\ LoopFrame
    /\ UNCHANGED hotkeys
    /\ UNCHANGED << swappingRightNow, iteration, tradeCounter, tickProbed,
                    liveCalls >>
    /\ UNCHANGED << sizerVars, cbVars, auxVars >>

\* monitorMEVAttack returned (it never throws): bookkeeping and cleanup.
MonitorDone(t) ==
    /\ phase = "running"
    /\ ticks[t].pc = "monitor"
    /\ \E bookThrows \in BOOLEAN :
         /\ tradeCounter' = Bookkeeping(tradeCounter,
                                        ticks[t].result.actualProfit, bookThrows)
         /\ swappingRightNow' = ExecutionCleanup(swappingRightNow, bookThrows)
         /\ SetTick(t, [ticks[t] EXCEPT !.pc = "done",
                                         !.thrown = IF bookThrows
                                                    THEN "tradeExecutionError"
                                                    ELSE "none"])
    /\ LoopFrame
    /\ UNCHANGED hotkeys
    /\ UNCHANGED << iteration, tickProbed, liveCalls >>
    /\ UNCHANGED << sizerVars, cbVars, auxVars >>

\* The continuation of slot t's invocation after whatever it awaits.
TickStep(t) ==
    \/ PriceRead(t)
    \/ ScanDone(t)
    \/ MevDone(t)
    \/ Leg1Done(t)
    \/ SettleDone(t)
    \/ Leg2Done(t)
    \/ Price2Done(t)
    \/ MonitorDone(t)

Next ==
    \/ Startup
    \/ Signal
    \/ \E k \in {"e", "r"} : HotkeyPressed(k)
    \/ \E t \in Slots : StartTick(t)
    \/ \E t \in Slots : TickStep(t)

Spec == Init /\ [][Next]_vars

\* Every awaited call returns (each has a timeout), so an invocation that
\* can continue eventually does.
FairSpec == Spec /\ \A t \in Slots : WF_vars(TickStep(t))

\* ------------------------------------------------------------------------
\* Claims about the bot process
\* ------------------------------------------------------------------------

Executing(t) == ticks[t].acquired /\ ticks[t].pc \in ExecPcs

Active(t) == ticks[t].pc \notin {"idle", "done"}

\* C1: across any interleaving of ticks at most one execution (from taking
\* swappingRightNow through both legs and the MEV monitoring) is in progress.
C1_AtMostOneExecution ==
    Cardinality({t \in Slots : Executing(t)}) <= 1

\* C2: at most one watcher invocation is active at any time.
C2_AtMostOneTick ==
    Cardinality({t \in Slots : Active(t)}) <= 1

\* C3: a tick that set swappingRightNow leaves it false when it ends, on every
\* path (legs succeed, leg 1 fails, leg 2 fails, simulation, bookkeeping
\* throws), and a tick that is executing does end unless the process exits.
C3_FlagReleasedByTick ==
    /\ [][\A t \in Slots :
            (ticks[t].pc # "done" /\ ticks'[t].pc = "done" /\ ticks'[t].acquired)
                => swappingRightNow' = FALSE]_vars
    /\ \A t \in Slots :
            Executing(t) ~> (ticks[t].pc = "done" \/ phase = "exited")

C3_Witness ==
    \E t \in Slots :
        /\ ticks[t].acquired
        /\ ticks[t].pc = "done"
        /\ ticks[t].result # None
        /\ ticks[t].result.txid = "failed_"
        /\ swappingRightNow = FALSE

\* C4: while trading is disabled no tick calls applyMEVProtection,
\* exchange.execute or executeProtectedTransaction, and a tick that found a
\* candidate ends with a "simulation_" txid and realized = expected profit.
C4_SimulationOnly ==
    (phase = "running" /\ ~tradingEnabled) =>
        /\ liveCalls = {}
        /\ \A t \in Slots :
              (ticks[t].pc = "done" /\ ticks[t].candidate # None) =>
                 /\ ticks[t].result # None
                 /\ ticks[t].result.txid = "simulation_"
                 /\ ticks[t].result.actualProfit = ticks[t].candidate.profitPercent
                 /\ ticks[t].result.actualProfitUSD = ticks[t].candidate.profitUSD

C4_Witness ==
    /\ phase = "running"
    /\ ~tradingEnabled
    /\ \E t \in Slots :
          /\ ticks[t].pc = "done"
          /\ ticks[t].candidate # None
          /\ ticks[t].result # None
          /\ ticks[t].result.txid = "simulation_"

\* C5: a zero anchor balance at startup leaves trading disabled for the whole
\* run whatever was configured, and no live call is ever made.
C5_ZeroBalanceForcesSimulation ==
    (phase # "startup" /\ realBalanceTokenA = 0) =>
        (~tradingEnabled /\ liveCalls = {})

C5_Witness ==
    /\ phase = "running"
    /\ realBalanceTokenA = 0
    /\ envTradingEnabled
    /\ \E t \in Slots : ticks[t].pc = "done" /\ ticks[t].result # None

\* C6: when 0 < balance < configured maximum at startup, the maximum becomes
\* floor(0.9 x balance) and no later tick probes a size above it.
C6_ProbesWithinClampedMax ==
    (/\ phase # "startup"
     /\ 0 < realBalanceTokenA
     /\ realBalanceTokenA < toNumber(sizerCfg.maxTradeSize)) =>
        /\ envMaxTradeSize = (realBalanceTokenA * 9) \div 10
        /\ \A sz \in tickProbed : toNumber(sz) <= envMaxTradeSize

\* C16: in a live execution leg 1 is submitted before leg 2, leg 2 is
\* submitted only after leg 1 returned success and the settle pause elapsed,
\* and leg 2 is never submitted when leg 1 failed.
C16_Leg2OnlyAfterLeg1Success ==
    \A t \in Slots :
        LET h == ticks[t].sends IN
        /\ \A i \in DOMAIN h :
              h[i] = "leg2" =>
                  /\ i = 4
                  /\ h[1] = "leg1"
                  /\ h[2] = "leg1_ok"
                  /\ h[3] = "settled"
        /\ "leg1_failed" \in Range(h) => "leg2" \notin Range(h)

\* Both cases happen: one tick sent leg 2, another stopped at a failed leg 1.
C16_Witness ==
    /\ \E t \in Slots : "leg2" \in Range(ticks[t].sends)
    /\ \E t \in Slots : "leg1_failed" \in Range(ticks[t].sends)

\* C17: when a live execution fails on leg 1 or on leg 2, the failed-trade
\* counter increases by exactly one for that execution.
C17_FailCountedOnce ==
    [][\A t \in Slots :
          (/\ ticks[t].pc \in {"leg1", "leg2"}
           /\ ticks'[t].pc = "done"
           /\ ticks'[t].result.txid = "failed_") =>
              tradeCounter'.fail = tradeCounter.fail + 1]_vars

\* C20: once the termination signal has been handled, no tick starts a new
\* scan: the watcher does not fire again, no invocation enters its scan,
\* and no quote is asked for.
C20_NoScanAfterCancellation ==
    [][isShuttingDown =>
          /\ started' = started
          /\ tickProbed' = tickProbed
          /\ \A t \in Slots :
                ticks'[t].pc = "scan" => ticks[t].pc = "scan"]_vars

\* The signal arrived while one invocation was scanning and a firing of the
\* interval was still to come.
C20_Witness ==
    /\ isShuttingDown
    /\ started < MaxStarted
    /\ \E t \in Slots : ticks[t].pc = "scan"

\* C21: on a termination signal received while an execution is in flight
\* the process does not exit until that execution has finished (no time
\* passes between the signal and the exit, so the grace period cannot have
\* elapsed).
C21_ExitWaitsForExecution ==
    phase = "exited" => \A t \in Slots : ~Executing(t)

C24_FlagChangedOnlyByOwner ==
    [][\A t \in Slots :
          (ticks'[t] # ticks[t] /\ ~ticks'[t].acquired) =>
              swappingRightNow' = swappingRightNow]_vars

\* ------------------------------------------------------------------------
\* getQuoteWithCircuitBreaker
\* ------------------------------------------------------------------------

maxConsecutiveFailures == 5

circuitBreakerTimeout == 60000

\* Amounts (ms) by which the clock moves between two events.
ClockSteps == {30000, 60001}

\* The threshold test that misses the fifth failure.
TooManyFailuresLate(failures) == failures > maxConsecutiveFailures

\* if (cb.failures >= maxConsecutiveFailures)
TooManyFailures(failures) == failures >= maxConsecutiveFailures

\* if (Date.now() - cb.lastFailure > circuitBreakerTimeout)
TimeoutElapsed(t, lastFailure) == t - lastFailure > circuitBreakerTimeout

Pending == {c \in CallIds : calls[c].status = "pending"}

TrialOutstanding ==
    cbLog.trial # 0 /\ calls[cbLog.trial].status = "pending"

BreakerInit ==
    /\ sizerCfg = LoopSizerCfg
    /\ solPriceUSD \in SolPrices
    /\ SizerIdle
    /\ LoopIdle
    /\ BreakerIdle
    /\ AuxIdle

BreakerFrame == UNCHANGED << sizerVars, loopVars, auxVars >>

\* A call arrives and runs up to its await: thrown out while the breaker is
\* open and the timeout has not elapsed, else handed to
\* getQuoteWithRateLimit (after closing the breaker if it was open).
CallArrives(c) ==
    /\ calls[c].status = "none"
    /\ \A d \in CallIds : d < c => calls[d].status # "none"
    /\ IF cb.isOpen /\ ~TimeoutElapsed(now, cb.lastFailure)
       THEN /\ calls' = [calls EXCEPT ![c] =
                            [status |-> "rejected",
                             duringTrial |-> TrialOutstanding]]
            /\ UNCHANGED << cb, quoteRequests, cbLog >>
       ELSE /\ Cardinality(Pending) < MaxPending
            /\ calls' = [calls EXCEPT ![c] =
                            [status |-> "pending",
                             duringTrial |-> TrialOutstanding]]
            /\ quoteRequests' = quoteRequests \cup {c}
            /\ IF cb.isOpen
               THEN /\ cb' = [cb EXCEPT !.isOpen = FALSE, !.failures = 0]
                    /\ cbLog' = [cbLog EXCEPT !.consec = 0, !.trial = c]
               ELSE UNCHANGED << cb, cbLog >>
    /\ UNCHANGED now
    /\ BreakerFrame

\* The awaited quote resolved: the failure count is reset.
QuoteSucceeds(c) ==
    /\ calls[c].status = "pending"
    /\ calls' = [calls EXCEPT ![c].status = "ok"]
    /\ cb' = [cb EXCEPT !.failures = 0]
    /\ cbLog' = [cbLog EXCEPT !.consec = 0]
    /\ UNCHANGED << now, quoteRequests >>
    /\ BreakerFrame

\* The awaited quote rejected: count it, stamp it, open at the threshold,
\* rethrow.
QuoteFails(c) ==
    /\ calls[c].status = "pending"
    /\ calls' = [calls EXCEPT ![c].status = "failed"]
    /\ LET failures == cb.failures + 1
           opens    == TooManyFailures(failures)
       IN  /\ cb' = [failures |-> failures, lastFailure |-> now,
                     isOpen |-> (cb.isOpen \/ opens)]
           /\ cbLog' = [cbLog EXCEPT
                           !.consec = @ + 1,
                           !.openedAt = IF ~cb.isOpen /\ opens THEN now ELSE @]
    /\ UNCHANGED << now, quoteRequests >>
    /\ BreakerFrame

\* Wall time passes.
ClockAdvances ==
    /\ \E d \in ClockSteps :
          /\ now + d <= MaxTime
          /\ now' = now + d
    /\ UNCHANGED << cb, calls, quoteRequests, cbLog >>
    /\ BreakerFrame

BreakerNext ==
    \/ \E c \in CallIds : CallArrives(c)
    \/ \E c \in CallIds : QuoteSucceeds(c)
    \/ \E c \in CallIds : QuoteFails(c)
    \/ ClockAdvances

SpecCB == BreakerInit /\ [][BreakerNext]_vars

\* ------------------------------------------------------------------------
\* Claims about the circuit breaker
\* ------------------------------------------------------------------------

C10_OneTrialAtATime ==
    \A c \in CallIds :
        (calls[c].status # "none" /\ calls[c].duringTrial) =>
            calls[c].status = "rejected"

\* C11: when the trial call admitted after the timeout fails, the breaker is
\* open again at once, so that the next call is thrown out.
C11_FailedTrialReopens ==
    (cbLog.trial # 0 /\ calls[cbLog.trial].status = "failed") => cb.isOpen

\* ------------------------------------------------------------------------
\* The sizer's scan beside the circuit breaker
\* ------------------------------------------------------------------------

\* A client that awaits each getQuoteWithCircuitBreaker call before the next
\* opens and closes the breaker, then findOptimalTradeSize scans; the scan's
\* quotes are the getQuote calls of testTriangularRoute.
ScanNext ==
    \/ sizerPc = "idle" /\ BreakerNext /\ Cardinality(Pending') <= 1
    \/ Pending = {} /\ SizerNext

SpecScan == BreakerInit /\ [][ScanNext]_vars

BreakerBlocks == cb.isOpen /\ ~TimeoutElapsed(now, cb.lastFailure)

\* C12: while the breaker is open a scan requests no quote and returns no
\* candidate.
C12_NoQuoteWhileOpen ==
    [][BreakerBlocks =>
          /\ ~(sizerPc = "probing" /\ probeIdx' = probeIdx + 1)
          /\ (sizerPc' = "returned" => optimal' = None)]_vars

\* ------------------------------------------------------------------------
\* jupiterApiClient: enforceRateLimit in front of every quote request
\* ------------------------------------------------------------------------

MIN_REQUEST_INTERVAL == 2000

\* if (now - requestResetTime > 60000)
RequestWindow == 60000

\* if (requestCount >= 30)
RequestCap == 30

\* Amounts (ms) by which the quote client's clock moves between two events.
RlClockSteps == {1000, 2000}

LimiterInit ==
    /\ sizerCfg = LoopSizerCfg
    /\ solPriceUSD \in SolPrices
    /\ SizerIdle
    /\ LoopIdle
    /\ BreakerIdle
    /\ AuxIdle

LimiterFrame == UNCHANGED << sizerVars, loopVars, cbVars, mevVars, rotVars,
                             priceVars, analyzeVars, quoteVars,
        queueVars,
        perfVars,
        freshVars,
        errVars >>

\* The request leaves enforceRateLimit at instant t and axios.get is called.
Dispatch(log, t) ==
    [log EXCEPT
        !.dispatched = @ + 1,
        !.lastAt = t,
        !.gapOk = @ /\ (log.dispatched = 0
                        \/ t - log.lastAt >= MIN_REQUEST_INTERVAL),
        !.winStart = IF log.dispatched = 0 THEN t ELSE @,
        !.winCount = IF log.dispatched = 0 \/ t - log.winStart < RequestWindow
                     THEN @ + 1 ELSE @]

\* if (timeSinceLastRequest < MIN_REQUEST_INTERVAL), with the time read at entry
MustWait(entered, last) == entered - last < MIN_REQUEST_INTERVAL

\* setTimeout order: earliest expiry first, then registration order.
NextTimer ==
    CHOOSE i \in 1..Len(rlWaiters) :
        \A j \in 1..Len(rlWaiters) :
            \/ rlWaiters[i].wakeAt < rlWaiters[j].wakeAt
            \/ (rlWaiters[i].wakeAt = rlWaiters[j].wakeAt /\ i <= j)

RemoveAt(seq, i) == SubSeq(seq, 1, i - 1) \o SubSeq(seq, i + 1, Len(seq))

\* getQuote calls enforceRateLimit, which runs up to its first await or, when
\* it has nothing to wait for, to its end.
RequestArrives ==
    /\ rlLog.requests < MaxRequests
    /\ LET entered == rlNow
           expired == entered - requestResetTime > RequestWindow
           count1  == IF expired THEN 0 ELSE requestCount
           reset1  == IF expired THEN entered ELSE requestResetTime
           log1    == [rlLog EXCEPT !.requests = @ + 1]
       IN  /\ requestResetTime' = reset1
           /\ IF count1 >= RequestCap
              THEN /\ Len(rlWaiters) < MaxWaiting
                   /\ rlWaiters' = Append(rlWaiters,
                         [kind |-> "cap", entered |-> entered,
                          wakeAt |-> entered + (RequestWindow - (entered - reset1))])
                   /\ requestCount' = count1
                   /\ rlLog' = log1
                   /\ UNCHANGED lastRequestTime
              ELSE IF MustWait(entered, lastRequestTime)
              THEN /\ Len(rlWaiters) < MaxWaiting
                   /\ rlWaiters' = Append(rlWaiters,
                         [kind |-> "gap", entered |-> entered,
                          wakeAt |-> entered + (MIN_REQUEST_INTERVAL
                                                - (entered - lastRequestTime))])
                   /\ requestCount' = count1
                   /\ rlLog' = log1
                   /\ UNCHANGED lastRequestTime
              ELSE /\ lastRequestTime' = entered
                   /\ requestCount' = count1 + 1
                   /\ rlLog' = Dispatch(log1, entered)
                   /\ UNCHANGED rlWaiters
    /\ UNCHANGED rlNow
    /\ LimiterFrame

\* The delay taken at the cap ends: the counter and the window restart, then
\* the spacing test runs with the time read when the caller entered.
CapWaitEnds ==
    /\ rlWaiters # << >>
    /\ LET i == NextTimer
           w == rlWaiters[i]
       IN  /\ w.kind = "cap"
           /\ w.wakeAt <= rlNow
           /\ requestResetTime' = rlNow
           /\ IF MustWait(w.entered, lastRequestTime)
              THEN /\ rlWaiters' = Append(RemoveAt(rlWaiters, i),
                         [kind |-> "gap", entered |-> w.entered,
                          wakeAt |-> rlNow + (MIN_REQUEST_INTERVAL
                                              - (w.entered - lastRequestTime))])
                   /\ requestCount' = 0
                   /\ UNCHANGED << lastRequestTime, rlLog >>
              ELSE /\ rlWaiters' = RemoveAt(rlWaiters, i)
                   /\ lastRequestTime' = rlNow
                   /\ requestCount' = 1
                   /\ rlLog' = Dispatch(rlLog, rlNow)
    /\ UNCHANGED rlNow
    /\ LimiterFrame

\* The spacing delay ends: the request is stamped, counted and sent.
GapWaitEnds ==
    /\ rlWaiters # << >>
    /\ LET i == NextTimer
           w == rlWaiters[i]
       IN  /\ w.kind = "gap"
           /\ w.wakeAt <= rlNow
           /\ rlWaiters' = RemoveAt(rlWaiters, i)
           /\ lastRequestTime' = rlNow
           /\ requestCount' = requestCount + 1
           /\ rlLog' = Dispatch(rlLog, rlNow)
    /\ UNCHANGED << rlNow, requestResetTime >>
    /\ LimiterFrame

\* Wall time passes, up to the next timer that is due.
LimiterClockAdvances ==
    /\ \E d \in RlClockSteps :
          /\ rlNow + d <= LoadTime + MaxRlSpan
          /\ \A i \in 1..Len(rlWaiters) : rlNow + d <= rlWaiters[i].wakeAt
          /\ rlNow' = rlNow + d
    /\ UNCHANGED << lastRequestTime, requestCount, requestResetTime,
                    rlWaiters, rlLog >>
    /\ LimiterFrame

LimiterNext ==
    \/ RequestArrives
    \/ CapWaitEnds
    \/ GapWaitEnds
    \/ LimiterClockAdvances

SpecRL == LimiterInit /\ [][LimiterNext]_vars

\* C13: any two quote requests sent to the aggregator are at least
\* MIN_REQUEST_INTERVAL apart, also when callers overlap.
C13_RequestsSpaced == rlLog.gapOk

\* C14: no more than RequestCap quote requests are sent within one minute of
\* the first one.
C14_CapPerMinute == rlLog.winCount <= RequestCap

\* ------------------------------------------------------------------------
\* MEVProtector: executeProtectedTransaction
\* ------------------------------------------------------------------------

ProtectionLevels == {"LOW", "MEDIUM", "HIGH"}

\* axios.post to the bundle endpoint: a result, a response without result,
\* or an exception.
BundleOutcomes == {"success", "invalid", "raise"}

\* connection.sendRawTransaction: a txid or an exception.
RpcOutcomes == {"success", "raise"}

\* What the protector is configured with, what applyMEVProtection attached to
\* the parameters, and what each submission meets.  rpc[k] is the outcome of
\* the k-th sendRawTransaction of the call; throwsEarly is an exception in the
\* protected path before any submission.
TransportInputs ==
    [enabled : BOOLEAN, mevMonitoring : BOOLEAN, protectionLevel : ProtectionLevels,
     useJitoBundles : BOOLEAN, bundleConfig : BOOLEAN,
     usePrivateMempool : BOOLEAN, throwsEarly : BOOLEAN,
     bundle : BundleOutcomes, rpc : [1..3 -> RpcOutcomes]]

Threw == [threw |-> TRUE]

Returned(success, method) ==
    [threw |-> FALSE, success |-> success, method |-> method]

\* standardExecution with its try / catch taken away.
standardExecutionUnguarded(outcome) ==
    IF outcome = "success" THEN Returned(TRUE, "standard_rpc") ELSE Threw

\* standardExecution: the exception of sendRawTransaction becomes a result.
standardExecution(outcome) ==
    IF outcome = "success" THEN Returned(TRUE, "standard_rpc")
    ELSE Returned(FALSE, "none")

\* A bundle submission whose success is not reported.
executeJitoBundleNeverWins(outcome) == Returned(FALSE, "none")

\* executeJitoBundle: an invalid response and an exception become a result.
executeJitoBundle(outcome) ==
    IF outcome = "success" THEN Returned(TRUE, "jito_bundle")
    ELSE Returned(FALSE, "none")

\* executePrivateMempool: standardExecution inside a try / catch of its own.
executePrivateMempool(outcome) ==
    LET r == standardExecution(outcome)
    IN  IF r.threw THEN Returned(FALSE, "none") ELSE r

\* The body of the try block from the first submission on: the value it
\* returns (or Threw) and the submissions made, in order.
ProtectedPath(in) ==
    LET tryBundle  == in.useJitoBundles /\ in.bundleConfig
        rBundle    == executeJitoBundle(in.bundle)
        bundleWon  == tryBundle /\ rBundle.success
        tryPool    == ~bundleWon /\ in.usePrivateMempool
                      /\ in.protectionLevel = "HIGH"
        rPool      == executePrivateMempool(in.rpc[1])
        poolWon    == tryPool /\ rPool.success
        sentBefore == (IF tryBundle THEN << "bundle" >> ELSE << >>)
                      \o (IF tryPool THEN << "private_pool" >> ELSE << >>)
        k          == IF tryPool THEN 2 ELSE 1
    IN  IF bundleWon THEN [value |-> rBundle, sent |-> << "bundle" >>,
                           rpcUsed |-> 0]
        ELSE IF poolWon THEN [value |-> rPool, sent |-> sentBefore,
                              rpcUsed |-> 1]
        ELSE [value |-> standardExecution(in.rpc[k]),
              sent |-> Append(sentBefore, "standard_rpc"), rpcUsed |-> k]

\* executeProtectedTransaction(signedTransaction, protectionParams)
executeProtectedTransaction(in) ==
    IF ~in.enabled \/ ~in.mevMonitoring
    THEN [value |-> standardExecution(in.rpc[1]), sent |-> << "standard_rpc" >>]
    ELSE IF in.throwsEarly
    THEN [value |-> standardExecution(in.rpc[1]), sent |-> << "standard_rpc" >>]
    ELSE LET body == ProtectedPath(in)
         IN  IF body.value.threw
             THEN [value |-> standardExecution(in.rpc[body.rpcUsed + 1]),
                   sent |-> Append(body.sent, "standard_rpc")]
             ELSE [value |-> body.value, sent |-> body.sent]

\* The raw outcome of the k-th submission of a call.
SubmissionSucceeded(in, sent, k) ==
    IF sent[k] = "bundle" THEN in.bundle = "success"
    ELSE in.rpc[Cardinality({j \in 1..k : sent[j] # "bundle"})] = "success"

TransportInit ==
    /\ sizerCfg = LoopSizerCfg
    /\ solPriceUSD \in SolPrices
    /\ SizerIdle
    /\ LoopIdle
    /\ BreakerIdle
    /\ AuxIdle

\* One call of executeProtectedTransaction, from entry to return.  The
\* protector keeps nothing that a later call reads, so one call is followed.
TransportCall ==
    /\ mevCall = None
    /\ \E in \in TransportInputs :
          mevCall' = [in |-> in, out |-> executeProtectedTransaction(in)]
    /\ UNCHANGED << sizerVars, loopVars, cbVars, rlVars, rotVars, priceVars,
                    analyzeVars, quoteVars,
        queueVars,
        perfVars,
        freshVars,
        errVars >>

TransportNext == TransportCall

SpecMEV == TransportInit /\ [][TransportNext]_vars

\* C15: executeProtectedTransaction never throws, and it returns
\* success = false only when every submission it attempted failed.
C15_TransportReturnsResult ==
    mevCall # None =>
        /\ ~mevCall.out.value.threw
        /\ ~mevCall.out.value.success =>
              \A k \in 1..Len(mevCall.out.sent) :
                  ~SubmissionSucceeded(mevCall.in, mevCall.out.sent, k)

C15_Witness ==
    /\ mevCall # None
    /\ ~mevCall.out.value.threw
    /\ ~mevCall.out.value.success
    /\ mevCall.out.sent = << "bundle", "private_pool", "standard_rpc" >>
    /\ mevCall.in.bundle = "raise"

\* The place of a path in the order bundle, private pool, standard RPC.
PathRank(path) ==
    IF path = "bundle" THEN 1 ELSE IF path = "private_pool" THEN 2 ELSE 3

\* A call that took the protected route (protection enabled, parameters
\* carrying mevMonitoring).
ProtectedCall == mevCall # None /\ mevCall.in.enabled /\ mevCall.in.mevMonitoring

\* The paths are attempted in the order bundle, private pool, standard RPC,
\* the bundle only with bundles enabled, and the call returns on the first
\* path that succeeds; when none of the earlier paths succeeded, standard
\* RPC is attempted.
PathsInOrder ==
    LET in == mevCall.in
        sent == mevCall.out.sent
    IN  /\ sent # << >>
        /\ \A j, k \in DOMAIN sent : j < k => PathRank(sent[j]) < PathRank(sent[k])
        /\ (\E k \in DOMAIN sent : sent[k] = "bundle") => in.useJitoBundles
        /\ \A k \in DOMAIN sent :
              SubmissionSucceeded(in, sent, k) =>
                  /\ k = Len(sent)
                  /\ mevCall.out.value.success
        /\ sent[Len(sent)] # "standard_rpc" =>
              SubmissionSucceeded(in, sent, Len(sent))

\* C29 (as amended): with MEV protection enabled the paths are attempted in
\* the order bundle (only if bundles are enabled), private pool (only if
\* no bundle submission succeeded - it failed or was not made -, private
\* pool is enabled and the protection level is HIGH), standard RPC, and
\* the call returns on the first path that succeeds without attempting
\* any later path.
C29_PathOrder ==
    ProtectedCall =>
        /\ PathsInOrder
        /\ (\E k \in DOMAIN mevCall.out.sent :
                mevCall.out.sent[k] = "private_pool") =>
              /\ mevCall.in.usePrivateMempool
              /\ mevCall.in.protectionLevel = "HIGH"
              /\ mevCall.out.sent[1] = "bundle" =>
                     mevCall.in.bundle # "success"

\* The private pool was the first path attempted, and it succeeded.
C29_Witness ==
    /\ ProtectedCall
    /\ ~mevCall.in.useJitoBundles
    /\ mevCall.out.sent = << "private_pool" >>
    /\ mevCall.out.value.success

\* C29 as stated: the private pool is attempted only if the bundle step
\* failed (and private pool is enabled and the level is HIGH).
C29_PoolOnlyAfterFailedBundle ==
    ProtectedCall =>
        /\ PathsInOrder
        /\ (\E k \in DOMAIN mevCall.out.sent :
                mevCall.out.sent[k] = "private_pool") =>
              /\ mevCall.in.usePrivateMempool
              /\ mevCall.in.protectionLevel = "HIGH"
              /\ mevCall.out.sent[1] = "bundle"
              /\ mevCall.in.bundle # "success"

\* ------------------------------------------------------------------------
\* The intermediate token: run's tokenB, the watcher's tokenB, the rotations
\* ------------------------------------------------------------------------

\* The lengths of INTERMEDIATE_TOKENS the rotation is checked with.
RingSizes == {1, 2, 4}

\* cache.tokenRotationList as setupTokenRotation leaves it: the trending
\* tokens above the volume floor, by volume.
TrendingLists == {<< >>, << "USDC" >>, << "BONK", "USDC" >>,
                  << "USDT", "BONK", "JUP" >>}

\* Array.prototype.findIndex on the token's address, zero-based.
RingIndex(r, b) ==
    IF \E i \in 1..Len(r) : r[i] = b
    THEN SetMin({i \in 1..Len(r) : r[i] = b}) - 1
    ELSE -1

\* setup: tokenB = cache.currentRotationToken || getUSDCToken(), where the
\* index comes from the temp file when it is below the list's length.
RotInit ==
    /\ sizerCfg = LoopSizerCfg
    /\ solPriceUSD \in SolPrices
    /\ SizerIdle
    /\ LoopIdle
    /\ BreakerIdle
    /\ LimiterIdle
    /\ TransportIdle
    /\ PriceFeedIdle
    /\ AnalysisIdle
    /\ QuoteIdle
    /\ QueueIdle
    /\ PerfIdle
    /\ FreshIdle
    /\ ErrIdle
    /\ ring \in {Take(INTERMEDIATE_TOKENS, n) : n \in RingSizes}
    /\ tokenRotationList \in TrendingLists
    /\ currentRotationIndex \in
           IF tokenRotationList = << >> THEN {0}
           ELSE 0..(Len(tokenRotationList) - 1)
    /\ runTokenB = IF tokenRotationList = << >> THEN "USDC"
                   ELSE tokenRotationList[currentRotationIndex + 1]
    /\ manualRotation = FALSE
    /\ scans = [t \in Slots |-> IdleScan]
    /\ rotLog = [parity |-> 0, error |-> FALSE]

RotFrame == UNCHANGED << sizerVars, loopRest, cbVars, rlVars, mevVars,
                         priceVars, analyzeVars, quoteVars,
        queueVars,
        perfVars,
        freshVars,
        errVars >>

\* The timer of run fires rotateIntermediateToken. tokenB is assigned
\* before the old pair's symbol is read from INTERMEDIATE_TOKENS[currentIndex],
\* which throws when findIndex returned -1.
rotateIntermediateToken ==
    LET currentIndex == RingIndex(ring, runTokenB)
        nextIndex    == (currentIndex + 1) % Len(ring)
    IN  /\ runTokenB' = ring[nextIndex + 1]
        /\ rotLog' = [parity |-> 1 - rotLog.parity,
                      error  |-> currentIndex = -1]
        /\ UNCHANGED << ring, manualRotation, tokenRotationList,
                        currentRotationIndex, scans >>
        /\ UNCHANGED iteration
        /\ RotFrame

\* The hotkey listener raises the flag.
ManualRotationRequested ==
    /\ ~manualRotation
    /\ manualRotation' = TRUE
    /\ UNCHANGED << ring, runTokenB, tokenRotationList, currentRotationIndex,
                    scans, rotLog >>
    /\ UNCHANGED iteration
    /\ RotFrame

\* rotateToNextToken: null for an empty list or when the index file cannot
\* be written (the cache has been advanced by then), else the next token.
rotateToNextToken(list, index, fsOk) ==
    IF list = << >>
    THEN [token |-> NoToken, index |-> index]
    ELSE LET nextIndex == (index + 1) % Len(list)
         IN  [token |-> IF fsOk THEN list[nextIndex + 1] ELSE NoToken,
              index |-> nextIndex]

\* A use of the intermediate that reads run's variable.
TokenReadShared(own, shared) == shared

\* The strategy reads its own parameter tokenB.
TokenRead(own, shared) == own

\* The watcher interval fires: the argument tokenB is run's variable as it is
\* now; the invocation awaits the anchor price.
WatcherFires(t) ==
    /\ scans[t].pc = "idle"
    /\ iteration < MaxRotIterations
    /\ scans' = [scans EXCEPT ![t] =
                    [pc |-> "price", tokenB |-> runTokenB,
                     firedWith |-> runTokenB, used |-> {}]]
    /\ UNCHANGED << ring, runTokenB, manualRotation, tokenRotationList,
                    currentRotationIndex, rotLog >>
    /\ UNCHANGED iteration
    /\ RotFrame

\* The price await returned (getCurrentSOLPrice does not reject): a pending
\* manual request is taken, and the strategy begins its quotes.
WatcherAfterPrice(t) ==
    /\ scans[t].pc = "price"
    /\ \E fsOk \in BOOLEAN :
         LET next == rotateToNextToken(tokenRotationList,
                                       currentRotationIndex, fsOk)
             b    == IF manualRotation /\ next.token # NoToken
                     THEN next.token ELSE scans[t].tokenB
         IN  /\ manualRotation' = FALSE
             /\ currentRotationIndex' =
                    IF manualRotation THEN next.index
                    ELSE currentRotationIndex
             /\ iteration' = (IF manualRotation /\ next.token # NoToken
                               THEN 0 ELSE iteration) + 1
             /\ scans' = [scans EXCEPT ![t] =
                             [@ EXCEPT !.pc = "scan", !.tokenB = b,
                                       !.used = {TokenRead(b, runTokenB)}]]
    /\ UNCHANGED << ring, runTokenB, tokenRotationList, rotLog >>
    /\ RotFrame

\* The remaining quotes of the scan were asked for; a candidate starts leg 1.
WatcherScanEnds(t) ==
    /\ scans[t].pc = "scan"
    /\ \E found \in BOOLEAN :
         scans' = [scans EXCEPT ![t] =
                      [@ EXCEPT !.pc = IF found THEN "leg1" ELSE "idle",
                                !.used = @ \cup {TokenRead(scans[t].tokenB,
                                                           runTokenB)}]]
    /\ UNCHANGED << ring, runTokenB, manualRotation, tokenRotationList,
                    currentRotationIndex, rotLog >>
    /\ UNCHANGED iteration
    /\ RotFrame

\* Leg 1 came back: after the pause leg 2 is built for the intermediate.
WatcherLeg1Ends(t) ==
    /\ scans[t].pc = "leg1"
    /\ \E ok \in BOOLEAN :
         scans' = [scans EXCEPT ![t] =
                      IF ok
                      THEN [@ EXCEPT !.pc = "leg2",
                                     !.used = @ \cup
                                         {TokenRead(scans[t].tokenB,
                                                    runTokenB)}]
                      ELSE [@ EXCEPT !.pc = "idle"]]
    /\ UNCHANGED << ring, runTokenB, manualRotation, tokenRotationList,
                    currentRotationIndex, rotLog >>
    /\ UNCHANGED iteration
    /\ RotFrame

\* Leg 2 came back: the pair is reported to the sizer and the tick ends.
WatcherLeg2Ends(t) ==
    /\ scans[t].pc = "leg2"
    /\ scans' = [scans EXCEPT ![t] =
                    [@ EXCEPT !.pc = "idle",
                              !.used = @ \cup {TokenRead(scans[t].tokenB,
                                                         runTokenB)}]]
    /\ UNCHANGED << ring, runTokenB, manualRotation, tokenRotationList,
                    currentRotationIndex, rotLog >>
    /\ UNCHANGED iteration
    /\ RotFrame

RotNext ==
    \/ rotateIntermediateToken
    \/ ManualRotationRequested
    \/ \E t \in Slots : WatcherFires(t)
    \/ \E t \in Slots : WatcherAfterPrice(t)
    \/ \E t \in Slots : WatcherScanEnds(t)
    \/ \E t \in Slots : WatcherLeg1Ends(t)
    \/ \E t \in Slots : WatcherLeg2Ends(t)

SpecRot == RotInit /\ [][RotNext]_vars

\* C18: the intermediate a tick uses is fixed when the tick starts; a
\* periodic rotation or a manual request made while the tick scans or
\* executes does not change the intermediate of its quotes and legs.
C18_TickKeepsItsIntermediate ==
    \A t \in Slots : scans[t].used \subseteq {scans[t].tokenB}

\* A tick sending leg 2 after the periodic rotation moved run's tokenB,
\* with a manual request pending.
C18_Witness ==
    \E t \in Slots :
        /\ scans[t].pc = "leg2"
        /\ runTokenB # scans[t].firedWith
        /\ manualRotation
        /\ scans[t].used = {scans[t].tokenB}

HonorsManualRotation(t) ==
    /\ manualRotation
    /\ ~manualRotation'
    /\ scans[t].pc = "price"
    /\ scans'[t].pc = "scan"

\* C30: when a tick honors a manual-rotation request the intermediate
\* advances by exactly one ring position, and the rotated intermediate is
\* the current B that the following ticks and the periodic rotation start
\* from.
C30_ManualRotationMovesCurrentB ==
    [][\A t \in Slots :
          HonorsManualRotation(t) =>
              /\ RingIndex(ring, scans'[t].tokenB) =
                     (RingIndex(ring, scans[t].firedWith) + 1) % Len(ring)
              /\ runTokenB' = scans'[t].tokenB]_vars

\* C32: the iteration counter never decreases: a tick increments it by
\* exactly one, and no other operation, honoring a manual rotation
\* included, modifies it.
C32_IterationMonotonic ==
    [][/\ iteration' >= iteration
       /\ iteration' # iteration =>
              /\ iteration' = iteration + 1
              /\ \E t \in Slots : scans[t].pc = "price"
                                  /\ scans'[t].pc = "scan"]_vars

\* ------------------------------------------------------------------------
\* PriceFeedService: updateSOLPrice
\* ------------------------------------------------------------------------

PriceSources == 1..4

\* A source whose request failed or timed out (its promise yields null).
SourceFailed == -2

\* What a source's parser can yield, in thousandths of a dollar: nothing,
\* NaN, zero, and prices on both sides of each end of the band.
SourcePrices == {SourceFailed, NaN, 0, 400, 1600, 9999000, 10001000}

\* The answers a source can give that are not below answer p.
NotBelow(p) == {q \in SourcePrices : q >= p}

\* `price && typeof price === 'number' && price > 0`
IsValidPrice(p) == p # SourceFailed /\ p # NaN /\ p > 0

RECURSIVE SumPrices(_, _)
SumPrices(r, S) ==
    IF S = {} THEN 0
    ELSE LET i == CHOOSE j \in S : TRUE
         IN  r[i] + SumPrices(r, S \ {i})

\* The band check with the comparison taken out.
InBandAny(sum, n) == TRUE

\* `avgPrice >= 1 && avgPrice <= 10000` for avgPrice = sum / n.
InBand(sum, n) == sum >= 1000 * n /\ sum <= 10000000 * n

\* Math.round(avgPrice * 100) / 100, as a number of cents.
RoundToCents(sum, n) == (sum + 5 * n) \div (10 * n)

PriceInit ==
    /\ sizerCfg = LoopSizerCfg
    /\ solPriceUSD \in SolPrices
    /\ SizerIdle
    /\ LoopIdle
    /\ BreakerIdle
    /\ AuxIdle

PriceFrame == UNCHANGED << sizerVars, loopVars, cbVars, rlVars, mevVars,
                           rotVars, analyzeVars, quoteVars,
        queueVars,
        perfVars,
        freshVars,
        errVars >>

\* The timer, the constructor or a getCurrentSOLPrice that found the price
\* stale calls updateSOLPrice: the requests to the sources go out.
UpdateStarts(u) ==
    /\ ~priceUpdates[u]
    /\ priceUpdates' = [priceUpdates EXCEPT ![u] = TRUE]
    /\ UNCHANGED << solPrice, priceLog >>
    /\ PriceFrame

\* Promise.allSettled returned: the valid prices are averaged and the mean
\* replaces the price when it is inside the band.  The mean does not depend
\* on which source gave which answer, so the four answers are taken in
\* non-decreasing order.
UpdateFinishes(u) ==
    /\ priceUpdates[u]
    /\ priceUpdates' = [priceUpdates EXCEPT ![u] = FALSE]
    /\ \E r1 \in SourcePrices : \E r2 \in NotBelow(r1) :
       \E r3 \in NotBelow(r2) : \E r4 \in NotBelow(r3) :
         LET r     == << r1, r2, r3, r4 >>
             valid == {i \in PriceSources : IsValidPrice(r[i])}
             n     == Cardinality(valid)
             sum   == SumPrices(r, valid)
             last  == IF n = 0 THEN "empty"
                      ELSE IF InBand(sum, n) THEN "accepted" ELSE "rejected"
         IN  /\ solPrice' = IF last = "accepted" THEN RoundToCents(sum, n)
                            ELSE solPrice
             /\ priceLog' = [parity |-> 1 - priceLog.parity, last |-> last,
                             seen |-> priceLog.seen \cup {last}]
    /\ PriceFrame

PriceNext ==
    \/ \E u \in UpdateSlots : UpdateStarts(u)
    \/ \E u \in UpdateSlots : UpdateFinishes(u)

SpecPrice == PriceInit /\ [][PriceNext]_vars

\* C23: the price exposed as current is within [1, 10000] dollars after any
\* sequence of updates, and an update whose mean is outside the band (or
\* that got no valid price) leaves the previous price in place.
C23_PriceWithinBand ==
    /\ [](solPrice >= 100 /\ solPrice <= 1000000)
    /\ [][(priceLog'.parity # priceLog.parity
           /\ priceLog'.last \in {"rejected", "empty"}) =>
              solPrice' = solPrice]_vars

\* Updates were accepted and rejected, one is in flight beside another, and
\* the price is not the default any more.
C23_Witness ==
    /\ {"accepted", "rejected", "empty"} \subseteq priceLog.seen
    /\ priceLog.last = "rejected"
    /\ solPrice # DefaultSolPrice
    /\ \A u \in UpdateSlots : priceUpdates[u]

\* ------------------------------------------------------------------------
\* DynamicTradeSizer: analyzeResults on the probes of one scan
\* ------------------------------------------------------------------------

\* Three stepped sizes, 10, 20 and 30.
AnalyzeCfg ==
    [strategy |-> "stepped", testCount |-> 3, minTradeSize |-> 10,
     maxTradeSize |-> 30, minProfitThreshold |-> MinProfitThresholdBp,
     minProfitUSD |-> 15000, maxPriceImpact |-> MaxPriceImpactPct]

\* Raw profits of the second leg; 11 at size 10 against 21 at size 20, and
\* 23 at size 20 against 33 at size 30, score alike when the larger size
\* carries 2 points of price impact more.
AnalyzeDeltas == {11, 21, 23, 33}

AnalyzeImpacts == {0, 1}

\* What the two quotes of one probe can be: failed, or the pair of quotes.
AnalyzeQuotes ==
    {[q1 |-> [ok |-> FALSE, impact |-> 0],
      q2 |-> [ok |-> FALSE, delta |-> 0, impact |-> 0]]} \cup
    {[q1 |-> [ok |-> TRUE, impact |-> i1],
      q2 |-> [ok |-> TRUE, delta |-> d, impact |-> i2]] :
        i1 \in AnalyzeImpacts, i2 \in AnalyzeImpacts, d \in AnalyzeDeltas}

\* The results array findOptimalTradeSize hands to analyzeResults: the
\* successful probes in the order of the test sizes.
RECURSIVE ProbeAll(_, _, _, _)
ProbeAll(cfg, sizes, quotes, price) ==
    IF sizes = << >> THEN << >>
    ELSE LET n == Len(sizes)
             r == testTriangularRoute(cfg, sizes[n], quotes[n].q1,
                                      quotes[n].q2, price)
         IN  PushIfSuccess(ProbeAll(cfg, SubSeq(sizes, 1, n - 1),
                                    quotes, price), r)

AnalyzeInit ==
    /\ sizerCfg = AnalyzeCfg
    /\ solPriceUSD \in SolPrices
    /\ SizerIdle
    /\ LoopIdle
    /\ BreakerIdle
    /\ LimiterIdle
    /\ TransportIdle
    /\ RotationIdle
    /\ PriceFeedIdle
    /\ QuoteIdle
    /\ QueueIdle
    /\ PerfIdle
    /\ FreshIdle
    /\ ErrIdle
    /\ \E quotes \in [1..AnalyzeCfg.testCount -> AnalyzeQuotes] :
         analysis =
            [pc |-> "called",
             results |->
                ProbeAll(sizerCfg,
                         generateTestSizes(sizerCfg.strategy,
                                           sizerCfg.minTradeSize,
                                           sizerCfg.maxTradeSize,
                                           sizerCfg.testCount),
                         quotes, solPriceUSD),
             optimal |-> None]

\* analyzeResults returns.
AnalyzeReturns ==
    /\ analysis.pc = "called"
    /\ analysis' = [analysis EXCEPT
                       !.pc = "returned",
                       !.optimal = analyzeResults(sizerCfg, analysis.results)]
    /\ UNCHANGED << sizerVars, loopVars, cbVars, rlVars, mevVars, rotVars,
                    priceVars, quoteVars, queueVars,
        perfVars,
        freshVars,
        errVars >>

AnalyzeNext == AnalyzeReturns

SpecAnalyze == AnalyzeInit /\ [][AnalyzeNext]_vars

\* C25: among the eligible probes analyzeResults returns the one with the
\* highest score; of two probes with equal scores the one with the larger
\* profitUSD wins, and if those are equal too the one with the larger size.
C25_TiesByProfitThenSize ==
    (analysis.pc = "returned" /\ analysis.optimal # None) =>
        \A i \in 1..Len(analysis.results) :
            LET r  == analysis.results[i]
                sr == Score(sizerCfg, r)
                so == Score(sizerCfg, analysis.optimal)
            IN  \/ sr < so
                \/ /\ sr = so
                   /\ \/ r.profitUSD < analysis.optimal.profitUSD
                      \/ /\ r.profitUSD = analysis.optimal.profitUSD
                         /\ r.sizeSOL <= analysis.optimal.sizeSOL

\* ------------------------------------------------------------------------
\* jupiterApiClient: getQuote, its validation and its retries
\* ------------------------------------------------------------------------

maxRetries == 3

\* The timer granularity of the model (ms).
QuoteClockStep == 1000

\* No retry: the catch block throws.
NoRetry == -1

\* What one axios.get can end in: a response body, an HTTP error status,
\* or an error without a response (ECONNABORTED carries the message
\* 'timeout of 20000ms exceeded').
ResponseBodies == {"ok", "empty", "noOutAmount", "zeroOutAmount",
                   "noInAmount"}

ErrorStatuses == {400, 404, 429, 500}

ErrorCodes == {"ECONNRESET", "ECONNABORTED", "ERR_NETWORK"}

HttpOutcomes ==
    {[status |-> 200, code |-> "", body |-> b] : b \in ResponseBodies} \cup
    {[status |-> st, code |-> "ERR_BAD_RESPONSE", body |-> ""] :
        st \in ErrorStatuses} \cup
    {[status |-> 0, code |-> c, body |-> ""] : c \in ErrorCodes}

\* The error the catch block sees: the validation of a 200 response throws
\* a plain Error, which has neither response nor code.
CaughtError(o) ==
    IF o.status = 200 THEN [status |-> 0, code |-> "", body |-> o.body]
    ELSE o

\* A backoff that grows by 5 s per retry.
RateLimitBackoffLinear(retryCount) == (retryCount + 1) * 5000

\* Math.pow(2, retryCount) * 5000
RateLimitBackoff(retryCount) == (2 ^ retryCount) * 5000

\* A check that takes every error status for a server error.
IsServerErrorLoose(status) == status >= 400

\* error.response?.status >= 500
IsServerError(status) == status >= 500

\* A catch block whose server-error branch keeps a budget of its own: it
\* counts from the last error of another kind, so it never runs out.
getQuoteCatchPerKind(error, retryCount) ==
    IF error.status = 429 /\ retryCount < maxRetries
    THEN RateLimitBackoff(retryCount)
    ELSE IF /\ \/ error.code \in {"ECONNRESET", "ETIMEDOUT", "ENOTFOUND"}
               \/ error.code = "ECONNABORTED"
            /\ retryCount < maxRetries
    THEN (retryCount + 1) * 3000
    ELSE IF IsServerError(error.status)
    THEN 4000
    ELSE NoRetry

\* The catch block of getQuote: the delay before the retry, or NoRetry.
getQuoteCatch(error, retryCount) ==
    IF error.status = 429 /\ retryCount < maxRetries
    THEN RateLimitBackoff(retryCount)
    ELSE IF /\ \/ error.code \in {"ECONNRESET", "ETIMEDOUT", "ENOTFOUND"}
               \/ error.code = "ECONNABORTED"
            /\ retryCount < maxRetries
    THEN (retryCount + 1) * 3000
    ELSE IF IsServerError(error.status) /\ retryCount < maxRetries
    THEN (retryCount + 1) * 4000
    ELSE NoRetry

QuoteInit ==
    /\ sizerCfg = LoopSizerCfg
    /\ solPriceUSD \in SolPrices
    /\ SizerIdle
    /\ LoopIdle
    /\ BreakerIdle
    /\ AuxIdle

QuoteFrame == UNCHANGED << sizerVars, loopVars, cbVars, rlVars, mevVars,
                           rotVars, priceVars, analyzeVars, queueVars,
        perfVars,
        freshVars,
        errVars >>

\* getQuote is called: enforceRateLimit returns and axios.get goes out.
QuoteCalled ==
    /\ quoteCall.pc = "idle"
    /\ quoteCall' = [quoteCall EXCEPT !.pc = "http"]
    /\ QuoteFrame

\* axios.get settled: a valid response is returned; anything else goes
\* through the catch block, which starts a delay or throws.
HttpReturns ==
    /\ quoteCall.pc = "http"
    /\ \E o \in HttpOutcomes :
         IF o.status = 200 /\ o.body = "ok"
         THEN quoteCall' = [quoteCall EXCEPT !.pc = "returned"]
         ELSE LET d == getQuoteCatch(CaughtError(o), quoteCall.retryCount)
              IN  quoteCall' =
                     [quoteCall EXCEPT
                         !.pc = IF d = NoRetry THEN "failed" ELSE "waiting",
                         !.backoff = d,
                         !.elapsed = 0,
                         !.log = Append(@, [outcome |-> o, backoff |-> d,
                                            waited |-> NoRetry])]
    /\ QuoteFrame

\* Time passes during the delay (and a little beyond it, while the timer
\* callback and enforceRateLimit of the retry are pending).
BackoffPasses ==
    /\ quoteCall.pc = "waiting"
    /\ quoteCall.elapsed < quoteCall.backoff + QuoteClockStep
    /\ quoteCall' = [quoteCall EXCEPT !.elapsed = @ + QuoteClockStep]
    /\ QuoteFrame

\* The delay's timer fired: the recursive getQuote call sends the retry.
RetryIssued ==
    /\ quoteCall.pc = "waiting"
    /\ quoteCall.elapsed >= quoteCall.backoff
    /\ quoteCall' =
          [quoteCall EXCEPT
              !.pc = "http",
              !.retryCount = @ + 1,
              !.log = [@ EXCEPT ![Len(@)].waited = quoteCall.elapsed]]
    /\ QuoteFrame

QuoteNext ==
    \/ QuoteCalled
    \/ HttpReturns
    \/ BackoffPasses
    \/ RetryIssued

SpecQuote == QuoteInit /\ [][QuoteNext]_vars

\* The retry that follows the i-th failed attempt has been sent.
RetryWentOut(i) ==
    \/ i < Len(quoteCall.log)
    \/ quoteCall.pc \in {"http", "returned"}

\* C26: after a 429 the call waits 5 s, 10 s and 20 s before its first,
\* second and third retry, no retry goes out before its backoff has
\* elapsed, and when the third retry fails too the call fails.
C26_RateLimitBackoff ==
    LET log == quoteCall.log IN
    /\ Len(log) <= maxRetries + 1
    /\ \A i \in DOMAIN log :
          log[i].outcome.status = 429 =>
              IF i <= maxRetries
              THEN /\ log[i].backoff = << 5000, 10000, 20000 >>[i]
                   /\ RetryWentOut(i) \/ quoteCall.pc = "waiting"
                   /\ RetryWentOut(i) =>
                          log[i].waited >= << 5000, 10000, 20000 >>[i]
              ELSE /\ log[i].backoff = NoRetry
                   /\ quoteCall.pc = "failed"

\* Four attempts answered 429: three retries went out, the call failed.
C26_Witness ==
    /\ quoteCall.pc = "failed"
    /\ Len(quoteCall.log) = 4
    /\ \A i \in 1..4 : quoteCall.log[i].outcome.status = 429

\* The HTTP attempts of the call so far.
HttpAttempts ==
    Len(quoteCall.log) + (IF quoteCall.pc \in {"http", "returned"} THEN 1 ELSE 0)

\* C35: a getQuote call makes at most 4 HTTP attempts (1 initial and 3
\* retries) whatever mix of 429, network and 5xx errors its attempts meet:
\* the retry budget is shared by all kinds of error and never reset, and
\* with the budget used up the call ends.
C35_SharedRetryBudget ==
    /\ HttpAttempts <= 4
    /\ quoteCall.pc # "idle" => quoteCall.retryCount = HttpAttempts - 1
    /\ quoteCall.pc = "waiting" => HttpAttempts < 4
    /\ Len(quoteCall.log) = 4 => quoteCall.pc = "failed"

\* Four attempts that failed with a 429, a network error, a 5xx status and
\* a 429 again: the call failed.
C35_Witness ==
    /\ quoteCall.pc = "failed"
    /\ Len(quoteCall.log) = 4
    /\ quoteCall.log[1].outcome.status = 429
    /\ quoteCall.log[2].outcome.code = "ECONNRESET"
    /\ quoteCall.log[3].outcome.status = 500
    /\ quoteCall.log[4].outcome.status = 429

\* The failures that must not be retried: a 4xx status other than 429, and
\* a response that is empty, lacks inAmount or outAmount, or has outAmount 0.
NotRetried(o) ==
    \/ o.status >= 400 /\ o.status < 500 /\ o.status # 429
    \/ o.status = 200 /\ o.body # "ok"

\* C27: such a failure is not retried: it is the call's last HTTP attempt
\* and the call fails; as the first failure it leaves exactly one attempt.
C27_ClientErrorsNotRetried ==
    LET log == quoteCall.log IN
    \A i \in DOMAIN log :
        NotRetried(log[i].outcome) =>
            /\ i = Len(log)
            /\ log[i].backoff = NoRetry
            /\ quoteCall.pc = "failed"
            /\ quoteCall.retryCount = i - 1

\* A call failed on its first attempt, which was answered 404.
C27_Witness ==
    /\ quoteCall.pc = "failed"
    /\ Len(quoteCall.log) = 1
    /\ quoteCall.log[1].outcome.status = 404

\* ------------------------------------------------------------------------
\* RateLimiter: queueRequest and processQueue
\* ------------------------------------------------------------------------

maxRequestsPerMinute == 25

minDelayBetweenRequests == 2500

\* How long a request function runs, and how it ends.
RequestDurations == {100, 27500, 27600}

RequestEndings == {"resolved", "failed", "failed429"}

\* A staleness test that discards a request at exactly 30 s already.
IsStaleAtLimit(nowT, timestamp) == nowT - timestamp >= 30000

\* Date.now() - timestamp > 30000
IsStale(nowT, timestamp) == nowT - timestamp > 30000

\* The limiter has served nothing yet, or has used up this minute's count.
QueueInit ==
    /\ sizerCfg = LoopSizerCfg
    /\ solPriceUSD \in SolPrices
    /\ SizerIdle
    /\ LoopIdle
    /\ BreakerIdle
    /\ LimiterIdle
    /\ TransportIdle
    /\ RotationIdle
    /\ PriceFeedIdle
    /\ AnalysisIdle
    /\ QuoteIdle
    /\ PerfIdle
    /\ FreshIdle
    /\ ErrIdle
    /\ qNow = QueueEpoch
    /\ \E served \in {0, maxRequestsPerMinute} :
         limiter = [requestCount |-> served, lastReset |-> QueueEpoch,
                    lastRequestTime |-> 0]
    /\ requestQueue = << >>
    /\ processing = FALSE
    /\ worker = IdleWorker
    /\ queueLog = [r \in RequestIds |-> NotQueued]

QueueFrame == UNCHANGED << sizerVars, loopVars, cbVars, rlVars, mevVars,
                           rotVars, priceVars, analyzeVars, quoteVars,
                           perfVars,
        freshVars,
        errVars >>

\* A processQueue that starts whenever the queue holds something.
processQueueReturnsIfEmpty(isProcessing, queue) == queue = << >>

\* `if (this.processing || this.requestQueue.length === 0) return;`
processQueueReturns(isProcessing, queue) == isProcessing \/ queue = << >>

\* queueRequest: push the request with its timestamp and call
\* processQueue, which returns at once when the queue is being processed.
queueRequest(r) ==
    /\ queueLog[r].state = "none"
    /\ \A q \in RequestIds : q < r => queueLog[q].state # "none"
    /\ requestQueue' = Append(requestQueue, [id |-> r, timestamp |-> qNow])
    /\ queueLog' = [queueLog EXCEPT ![r].state = "queued"]
    /\ IF processQueueReturns(processing, requestQueue')
       THEN UNCHANGED << processing, worker >>
       ELSE /\ processing' = TRUE
            /\ worker' = [worker EXCEPT !.pc = "top", !.loops = @ + 1]
    /\ UNCHANGED << qNow, limiter >>
    /\ QueueFrame

\* The loop condition and the top of the loop body, up to the first await
\* or to the dequeue.
LoopTop ==
    /\ worker.pc = "top"
    /\ IF requestQueue = << >>
       THEN /\ processing' = FALSE
            /\ worker' = [IdleWorker EXCEPT !.loops = worker.loops - 1]
            /\ UNCHANGED limiter
       ELSE LET reset == qNow - limiter.lastReset > 60000
                count == IF reset THEN 0 ELSE limiter.requestCount
                last  == IF reset THEN qNow ELSE limiter.lastReset
            IN  /\ limiter' = [limiter EXCEPT !.requestCount = count,
                                              !.lastReset = last]
                /\ worker' =
                      IF count >= maxRequestsPerMinute
                      THEN [worker EXCEPT !.pc = "rateWait", !.now = qNow,
                               !.wake = qNow + (60000 - (qNow - last))]
                      ELSE [worker EXCEPT !.pc = "minDelayCheck",
                                          !.now = qNow]
                /\ UNCHANGED processing
    /\ UNCHANGED << qNow, requestQueue, queueLog >>
    /\ QueueFrame

\* The rate-limit delay ended: the counter starts again.
RateWaitEnds ==
    /\ worker.pc = "rateWait"
    /\ qNow' = IF qNow > worker.wake THEN qNow ELSE worker.wake
    /\ limiter' = [limiter EXCEPT !.requestCount = 0, !.lastReset = qNow']
    /\ worker' = [worker EXCEPT !.pc = "minDelayCheck"]
    /\ UNCHANGED << requestQueue, processing, queueLog >>
    /\ QueueFrame

\* The minimum delay between requests, computed from the `now` read at
\* the top of the loop.
MinDelayCheck ==
    /\ worker.pc = "minDelayCheck"
    /\ LET timeSinceLastRequest == worker.now - limiter.lastRequestTime
       IN  worker' =
              IF timeSinceLastRequest < minDelayBetweenRequests
              THEN [worker EXCEPT !.pc = "minDelay",
                       !.wake = qNow + (minDelayBetweenRequests
                                        - timeSinceLastRequest)]
              ELSE [worker EXCEPT !.pc = "dequeue"]
    /\ UNCHANGED << qNow, limiter, requestQueue, processing, queueLog >>
    /\ QueueFrame

MinDelayEnds ==
    /\ worker.pc = "minDelay"
    /\ qNow' = IF qNow > worker.wake THEN qNow ELSE worker.wake
    /\ worker' = [worker EXCEPT !.pc = "dequeue"]
    /\ UNCHANGED << limiter, requestQueue, processing, queueLog >>
    /\ QueueFrame

\* requestQueue.shift(), the staleness test, and either the rejection
\* (continue) or the call of the request function.
Dequeue ==
    /\ worker.pc = "dequeue"
    /\ requestQueue # << >>
    /\ LET item == Head(requestQueue)
           waited == qNow - item.timestamp
       IN  /\ requestQueue' = Tail(requestQueue)
           /\ IF IsStale(qNow, item.timestamp)
              THEN /\ queueLog' = [queueLog EXCEPT
                          ![item.id].state = "timeout",
                          ![item.id].waited = waited]
                   /\ worker' = [worker EXCEPT !.pc = "top"]
              ELSE /\ queueLog' = [queueLog EXCEPT
                          ![item.id].state = "running",
                          ![item.id].waited = waited,
                          ![item.id].invoked = TRUE]
                   /\ worker' = [worker EXCEPT !.pc = "request",
                                               !.cur = item.id]
    /\ UNCHANGED << qNow, limiter, processing >>
    /\ QueueFrame

\* await requestFn() settles; a rate-limit error adds the 10 s penalty
\* before the rejection.
RequestSettles ==
    /\ worker.pc = "request"
    /\ \E d \in RequestDurations, e \in RequestEndings :
         /\ qNow' = qNow + d
         /\ IF e = "resolved"
            THEN /\ limiter' = [limiter EXCEPT !.requestCount = @ + 1,
                                               !.lastRequestTime = qNow']
                 /\ queueLog' = [queueLog EXCEPT
                                    ![worker.cur].state = "resolved"]
                 /\ worker' = [worker EXCEPT !.pc = "gap",
                                             !.wake = qNow' + 500]
            ELSE IF e = "failed429"
            THEN /\ worker' = [worker EXCEPT !.pc = "penalty",
                                             !.wake = qNow' + 10000]
                 /\ UNCHANGED << limiter, queueLog >>
            ELSE /\ queueLog' = [queueLog EXCEPT
                                    ![worker.cur].state = "rejected"]
                 /\ worker' = [worker EXCEPT !.pc = "gap",
                                             !.wake = qNow' + 500]
                 /\ UNCHANGED limiter
    /\ UNCHANGED << requestQueue, processing >>
    /\ QueueFrame

PenaltyEnds ==
    /\ worker.pc = "penalty"
    /\ qNow' = IF qNow > worker.wake THEN qNow ELSE worker.wake
    /\ queueLog' = [queueLog EXCEPT ![worker.cur].state = "rejected"]
    /\ worker' = [worker EXCEPT !.pc = "gap", !.wake = qNow' + 500]
    /\ UNCHANGED << limiter, requestQueue, processing >>
    /\ QueueFrame

\* The 500 ms delay between queue items ended.
GapEnds ==
    /\ worker.pc = "gap"
    /\ qNow' = IF qNow > worker.wake THEN qNow ELSE worker.wake
    /\ worker' = [worker EXCEPT !.pc = "top", !.cur = 0]
    /\ UNCHANGED << limiter, requestQueue, processing, queueLog >>
    /\ QueueFrame

QueueNext ==
    \/ \E r \in RequestIds : queueRequest(r)
    \/ LoopTop
    \/ RateWaitEnds
    \/ MinDelayCheck
    \/ MinDelayEnds
    \/ Dequeue
    \/ RequestSettles
    \/ PenaltyEnds
    \/ GapEnds

SpecQueue == QueueInit /\ [][QueueNext]_vars

\* C28: a request that has waited in the queue for more than 30 s when it
\* is dequeued is rejected with the timeout error and its request function
\* is never invoked; a request dequeued within 30 s is invoked.
C28_StaleRequestsDiscarded ==
    \A r \in RequestIds :
        queueLog[r].state \notin {"none", "queued"} =>
            IF queueLog[r].waited > 30000
            THEN queueLog[r].state = "timeout" /\ ~queueLog[r].invoked
            ELSE queueLog[r].invoked /\ queueLog[r].state # "timeout"

\* One request was discarded after more than 30 s, another was invoked
\* after exactly 30 s in the queue.
C28_Witness ==
    \E r, q \in RequestIds :
        /\ queueLog[r].state = "timeout"
        /\ queueLog[r].waited > 30000
        /\ queueLog[q].invoked
        /\ queueLog[q].waited = 30000

\* ------------------------------------------------------------------------
\* DynamicTradeSizer: the samples of a pair's performance entry
\* ------------------------------------------------------------------------

\* `if (history.results.length > 100) history.results = history.results.slice(-100)`
KeepRecent(rs) ==
    IF Len(rs) > 100 THEN SubSeq(rs, Len(rs) - 99, Len(rs)) ELSE rs

PerfInit ==
    /\ sizerCfg = LoopSizerCfg
    /\ solPriceUSD \in SolPrices
    /\ SizerIdle
    /\ LoopIdle
    /\ BreakerIdle
    /\ AuxIdle

PerfFrame == UNCHANGED << sizerVars, loopVars, cbVars, rlVars, mevVars,
                          rotVars, priceVars, analyzeVars, quoteVars,
                          queueVars, freshVars,
        errVars >>

PushedSoFar == perfPushed["SOL-USDC"] + perfPushed["SOL-USDT"]

\* storePerformanceData for the selection of a scan of pair p: the entry is
\* created when missing, the sample is pushed and the list is cut to its
\* last 100.  A sample is modelled by its serial number for the pair.
StoreSelection(p) ==
    /\ PushedSoFar < MaxSamples
    /\ perfPushed' = [perfPushed EXCEPT ![p] = @ + 1]
    /\ LET entry == IF perfResults[p] = NoEntry THEN << >>
                    ELSE perfResults[p]
       IN  perfResults' = [perfResults EXCEPT ![p] =
                              KeepRecent(Append(entry, perfPushed'[p]))]
    /\ PerfFrame

\* updateActualPerformance after an execution on pair p, which has an
\* entry: the sample is pushed.
UpdateActual(p) ==
    /\ PushedSoFar < MaxSamples
    /\ perfResults[p] # NoEntry
    /\ perfPushed' = [perfPushed EXCEPT ![p] = @ + 1]
    /\ perfResults' = [perfResults EXCEPT ![p] = Append(@, perfPushed'[p])]
    /\ PerfFrame

PerfNext ==
    \/ \E p \in PerfPairs : StoreSelection(p)
    \/ \E p \in PerfPairs : UpdateActual(p)

SpecPerf == PerfInit /\ [][PerfNext]_vars

\* C31: a pair's recent samples never number more than 100 after any
\* sequence of selection stores and post-execution updates, and the
\* samples kept are the most recent ones (the oldest are evicted first).
C31_RecentSamplesCapped ==
    \A p \in PerfPairs :
        perfResults[p] # NoEntry =>
            /\ Len(perfResults[p]) <= 100
            /\ \A i \in DOMAIN perfResults[p] :
                  perfResults[p][i] = perfPushed[p] - Len(perfResults[p]) + i

\* ------------------------------------------------------------------------
\* PriceFeedService: getCurrentSOLPrice after the second leg
\* ------------------------------------------------------------------------

priceUpdateInterval == 30000

\* The clock of the model advances in steps of this many ms.
FreshClockStep == 20000

\* The answers of the four sources to one update: all failed, two valid
\* prices of 1.60, a mean below the band, a mean inside the band.
FreshAnswers ==
    { << SourceFailed, SourceFailed, SourceFailed, SourceFailed >>,
      << 1600, 1600, SourceFailed, NaN >>,
      << 400, 400, 400, 0 >>,
      << 9999000, 1600, 1600, SourceFailed >> }

\* updateSOLPrice from Promise.allSettled on: there is a valid price and
\* the mean is inside the band.
UpdateAccepted(r) ==
    LET valid == {i \in PriceSources : IsValidPrice(r[i])}
    IN  valid # {} /\ InBand(SumPrices(r, valid), Cardinality(valid))

\* The price an accepted update stores, in cents.
UpdatedPrice(r) ==
    LET valid == {i \in PriceSources : IsValidPrice(r[i])}
    IN  RoundToCents(SumPrices(r, valid), Cardinality(valid))

\* A refresh only when the price is older than three intervals.
NeedsUpdateLate(nowT, last) == nowT - last > 3 * priceUpdateInterval

\* `now - this.lastPriceUpdate > this.priceUpdateInterval`
NeedsUpdate(nowT, last) == nowT - last > priceUpdateInterval

\* isPriceFresh()
isPriceFresh(nowT, last) == nowT - last < priceUpdateInterval * 2

FreshInit ==
    /\ sizerCfg = LoopSizerCfg
    /\ solPriceUSD \in SolPrices
    /\ SizerIdle
    /\ LoopIdle
    /\ BreakerIdle
    /\ AuxIdle

FreshFrame ==
    /\ UNCHANGED << priceUpdates, priceLog >>
    /\ UNCHANGED << sizerVars, loopVars, cbVars, rlVars, mevVars, rotVars,
                    analyzeVars, quoteVars, queueVars, perfVars, errVars >>

FreshClockAdvances ==
    /\ priceNow < PriceEpoch + MaxFreshSpan
    /\ priceNow' = priceNow + FreshClockStep
    /\ UNCHANGED << solPrice, lastPriceUpdate, otherUpdate, reader >>
    /\ FreshFrame

\* The timer, or the getCurrentSOLPrice of another tick, starts an update.
OtherUpdateStarts ==
    /\ ~otherUpdate
    /\ otherUpdate' = TRUE
    /\ UNCHANGED << solPrice, priceNow, lastPriceUpdate, reader >>
    /\ FreshFrame

OtherUpdateFinishes ==
    /\ otherUpdate
    /\ otherUpdate' = FALSE
    /\ \E r \in FreshAnswers :
         IF UpdateAccepted(r)
         THEN solPrice' = UpdatedPrice(r) /\ lastPriceUpdate' = priceNow
         ELSE UNCHANGED << solPrice, lastPriceUpdate >>
    /\ UNCHANGED << priceNow, reader >>
    /\ FreshFrame

\* A tick with a candidate starts its live execution; solPriceUSD is the
\* price the watcher read when the tick began.
ExecutionStarts ==
    /\ reader.pc = "idle"
    /\ reader' = [reader EXCEPT !.pc = "legs", !.startPrice = solPrice]
    /\ UNCHANGED << solPrice, priceNow, lastPriceUpdate, otherUpdate >>
    /\ FreshFrame

\* Leg 2 succeeded: getCurrentSOLPrice is called; it returns the stored
\* price at once or awaits updateSOLPrice first.
Leg2Succeeds ==
    /\ reader.pc = "legs"
    /\ reader' =
          IF NeedsUpdate(priceNow, lastPriceUpdate)
          THEN [reader EXCEPT !.pc = "updating", !.fanouts = 1,
                   !.stale = ~isPriceFresh(priceNow, lastPriceUpdate)]
          ELSE [reader EXCEPT !.pc = "done", !.price = solPrice,
                   !.stale = ~isPriceFresh(priceNow, lastPriceUpdate)]
    /\ UNCHANGED << solPrice, priceNow, lastPriceUpdate, otherUpdate >>
    /\ FreshFrame

\* The update awaited by getCurrentSOLPrice returned: this.solPrice is
\* returned and the realized USD profit is computed with it.
ReadReturns ==
    /\ reader.pc = "updating"
    /\ \E r \in FreshAnswers :
         IF UpdateAccepted(r)
         THEN solPrice' = UpdatedPrice(r) /\ lastPriceUpdate' = priceNow
         ELSE UNCHANGED << solPrice, lastPriceUpdate >>
    /\ reader' = [reader EXCEPT !.pc = "done", !.price = solPrice']
    /\ UNCHANGED << priceNow, otherUpdate >>
    /\ FreshFrame

\* The tick ended; a later tick executes again.
ExecutionEnds ==
    /\ reader.pc = "done"
    /\ reader' = IdleReader
    /\ UNCHANGED << solPrice, priceNow, lastPriceUpdate, otherUpdate >>
    /\ FreshFrame

FreshNext ==
    \/ FreshClockAdvances
    \/ OtherUpdateStarts
    \/ OtherUpdateFinishes
    \/ ExecutionStarts
    \/ Leg2Succeeds
    \/ ReadReturns
    \/ ExecutionEnds

SpecFresh == FreshInit /\ [][FreshNext]_vars

\* C33: after both legs of a live execution succeeded the realized USD
\* profit is computed with the anchor price read after leg 2; when the
\* stored price was stale at that point (last update at least 2 x the
\* refresh interval ago) the read made exactly one refresh fan-out first.
C33_FreshPriceAfterLeg2 ==
    /\ [](reader.pc = "done" /\ reader.stale => reader.fanouts = 1)
    /\ [](reader.pc = "updating" => reader.fanouts = 1)
    /\ [][reader'.pc = "done" /\ reader.pc # "done" =>
             reader'.price = solPrice']_vars

\* A stale price was refreshed by the read after leg 2, and the profit is
\* computed with a price that differs from the one the tick began with.
C33_Witness ==
    /\ reader.pc = "done"
    /\ reader.stale
    /\ reader.fanouts = 1
    /\ reader.price # reader.startPrice
    /\ lastPriceUpdate > PriceEpoch

\* ------------------------------------------------------------------------
\* The bot process: the hotkey flags and the execution guard
\* ------------------------------------------------------------------------

\* Slot t's invocation starts an execution in this step.
StartsExecution(t) == ~ticks[t].acquired /\ ticks'[t].acquired

\* C36: an execution is started only for a candidate that met the sizer's
\* profit thresholds and the USD floor re-check; a step that starts one
\* would also have started it with both hotkey flags clear (the lock is
\* free and the candidate's profit is positive); and a set hotkey flag is
\* cleared only by a step in which some invocation starts an execution.
C36_HotkeysNeverForceExecution ==
    /\ [](\A t \in Slots :
            ticks[t].acquired =>
                /\ ticks[t].candidate # None
                /\ ticks[t].candidate.profitPercent >= sizerCfg.minProfitThreshold
                /\ ticks[t].candidate.profitUSD >= sizerCfg.minProfitUSD)
    /\ [][\A t \in Slots :
            StartsExecution(t) =>
                /\ ~swappingRightNow
                /\ ticks'[t].candidate.profitPercent > 0]_vars
    /\ [][\A k \in {"e", "r"} :
            (hotkeys[k] /\ ~hotkeys'[k]) =>
                \E t \in Slots : StartsExecution(t)]_vars

\* With the forced-execution flag set, one invocation is in its execution
\* and another has returned without executing its candidate, which had
\* passed the USD floor: the flag neither forced it nor was cleared by it.
C36_Witness ==
    /\ hotkeys.e
    /\ \E t \in Slots : ticks[t].acquired /\ ticks[t].pc \in ExecPcs
    /\ \E t \in Slots :
          /\ ticks[t].pc = "done"
          /\ ~ticks[t].acquired
          /\ ticks[t].candidate # None
          /\ ticks[t].candidate.profitUSD >= sizerCfg.minProfitUSD

\* ------------------------------------------------------------------------
\* The bot process: the startup balance check
\* ------------------------------------------------------------------------

\* C37: once startup is over, cache.tradingEnabled is true only if live
\* trading was configured, the balance lookup answered, and the balance
\* read was at least the configured maximum trade size.
C37_LiveOnlyWithSufficientBalance ==
    (phase # "startup" /\ tradingEnabled) =>
        /\ envTradingEnabled
        /\ balanceLookup # RpcFailed
        /\ balanceLookup >= toNumber(sizerCfg.maxTradeSize)

\* Live trading was configured and the lookup failed or gave a positive but
\* insufficient balance: an invocation has run its candidate as a simulation.
C37_Witness ==
    /\ envTradingEnabled
    /\ phase = "running"
    /\ \/ balanceLookup = RpcFailed
       \/ balanceLookup > 0 /\ balanceLookup < toNumber(sizerCfg.maxTradeSize)
    /\ ~tradingEnabled
    /\ \E t \in Slots :
          ticks[t].result # None /\ ticks[t].result.mode = "SIMULATION"

\* ------------------------------------------------------------------------
\* MEVProtector: submissions through the standard RPC
\* ------------------------------------------------------------------------

\* The calls of standardExecution (each one sendRawTransaction) among the
\* submissions of a call: the private-pool attempt is one of them.
StandardRpcSends(sent) ==
    Cardinality({k \in 1..Len(sent) : sent[k] \in {"private_pool", "standard_rpc"}})

\* C38: one call of executeProtectedTransaction submits the signed
\* transaction through the standard RPC at most once.
C38_StandardRpcAtMostOnce ==
    mevCall # None => StandardRpcSends(mevCall.out.sent) <= 1

\* ------------------------------------------------------------------------
\* GlobalErrorHandler: counting critical errors
\* ------------------------------------------------------------------------

MaxErrors == 4
MaxErrSpan == 61000
ErrClockSteps == {20000, 61000}

\* What matters of an error object: whether its message contains 'Jupiter',
\* whether it contains one of the ignorable texts, and whether its code is
\* ECONNRESET or ETIMEDOUT.  A rejection can also carry no reason at all.
ErrorValues ==
    [mentionsJupiter : BOOLEAN, ignorableText : BOOLEAN, netCode : BOOLEAN]

\* shouldIgnoreError
shouldIgnoreError(error) ==
    IF error = None THEN FALSE ELSE error.ignorableText

\* The unhandledRejection listener: which handler gets the reason.
RejectionRoute(reason) ==
    IF reason # None /\ reason.mentionsJupiter THEN "jupiter"
    ELSE IF reason # None /\ reason.netCode THEN "network"
    ELSE "critical"

\* handleCriticalError: the count is restarted after more than a minute
\* without a critical error, then the error is counted and dated; only
\* then is it looked at.  Reading the message of a missing reason throws
\* inside the try, whose catch ends the process.
handleCriticalError(error) ==
    IF isShuttingDown
    THEN UNCHANGED << errorCount, lastErrorTime, exitTimer >>
    ELSE LET restarted == IF errNow - lastErrorTime > 60000
                          THEN 0 ELSE errorCount
             counted   == restarted + 1
         IN  /\ errorCount' = counted
             /\ lastErrorTime' = errNow
             /\ exitTimer' =
                    IF error = None THEN "exited"
                    ELSE IF shouldIgnoreError(error) THEN exitTimer
                    ELSE IF counted >= 3 THEN "armed"
                    ELSE exitTimer

\* handleJupiterError: the error is counted, the process goes on.
handleJupiterError ==
    /\ errorCount' = errorCount + 1
    /\ UNCHANGED << lastErrorTime, exitTimer >>

\* handleNetworkError: a log line.
handleNetworkError == UNCHANGED << errorCount, lastErrorTime, exitTimer >>

LogError(route, error) ==
    errLog' = Append(errLog,
                     [route |-> route,
                      ignorable |-> shouldIgnoreError(error),
                      at |-> errNow,
                      shut |-> exitTimer' = "armed" /\ route = "critical"
                               /\ ~shouldIgnoreError(error)
                               /\ error # None])

ErrInit ==
    /\ sizerCfg = LoopSizerCfg
    /\ solPriceUSD \in SolPrices
    /\ SizerIdle
    /\ LoopIdle
    /\ BreakerIdle
    /\ AuxIdle

ErrFrame == UNCHANGED << sizerVars, loopVars, cbVars, rlVars, mevVars,
                         rotVars, priceVars, analyzeVars, quoteVars,
                         queueVars, perfVars, freshVars >>

ErrClockAdvances ==
    /\ exitTimer = "none"
    /\ \E d \in ErrClockSteps :
          /\ errNow + d <= ErrEpoch + MaxErrSpan
          /\ errNow' = errNow + d
    /\ UNCHANGED << errorCount, lastErrorTime, exitTimer, errLog >>
    /\ ErrFrame

\* process.on('uncaughtException')
ExceptionDelivered ==
    /\ exitTimer # "exited"
    /\ Len(errLog) < MaxErrors
    /\ \E error \in ErrorValues :
          /\ handleCriticalError(error)
          /\ LogError("critical", error)
    /\ UNCHANGED errNow
    /\ ErrFrame

\* process.on('unhandledRejection')
RejectionDelivered ==
    /\ exitTimer # "exited"
    /\ Len(errLog) < MaxErrors
    /\ \E reason \in ErrorValues \cup {None} :
          LET route == RejectionRoute(reason)
          IN  /\ CASE route = "jupiter" -> handleJupiterError
                    [] route = "network" -> handleNetworkError
                    [] OTHER -> handleCriticalError(reason)
              /\ LogError(route, reason)
    /\ UNCHANGED errNow
    /\ ErrFrame

\* The timer of emergencyShutdown: process.exit(1) three seconds later.
ExitTimerFires ==
    /\ exitTimer = "armed"
    /\ exitTimer' = "exited"
    /\ UNCHANGED << errNow, errorCount, lastErrorTime, errLog >>
    /\ ErrFrame

ErrNext ==
    \/ ErrClockAdvances
    \/ ExceptionDelivered
    \/ RejectionDelivered
    \/ ExitTimerFires

SpecErr == ErrInit /\ [][ErrNext]_vars

\* The delivered errors up to the i-th that handleCriticalError did not
\* ignore, oldest first.
CriticalUpTo(i) ==
    SelectSeq(SubSeq(errLog, 1, i),
              LAMBDA e : e.route = "critical" /\ ~e.ignorable)

\* C39: emergencyShutdown is called only by the third (or a later) of
\* non-ignorable critical errors that followed one another by less than
\* 60 s; ignorable errors and Jupiter rejections do not count.
C39_ShutdownAfterThreeCriticalErrors ==
    \A i \in 1..Len(errLog) :
        errLog[i].shut =>
            LET crit == CriticalUpTo(i)
                n    == Len(crit)
            IN  /\ n >= 3
                /\ crit[n].at - crit[n - 1].at < 60000
                /\ crit[n - 1].at - crit[n - 2].at < 60000

\* ------------------------------------------------------------------------
\* RateLimiter: one loop, first in first out, nothing stranded
\* ------------------------------------------------------------------------

\* A delay that is awaited ends, and the request function settles (the
\* HTTP client has a timeout), so the processing loop always goes on.
QueueWorkerStep ==
    \/ LoopTop
    \/ RateWaitEnds
    \/ MinDelayCheck
    \/ MinDelayEnds
    \/ Dequeue
    \/ RequestSettles
    \/ PenaltyEnds
    \/ GapEnds

FairSpecQueue == SpecQueue /\ WF_vars(QueueWorkerStep)

QueueSettled == {"resolved", "rejected", "timeout"}

\* C40: at most one processQueue loop is under way and at most one request
\* function is running; requests leave the queue in the order they were
\* handed in, each after the earlier ones have settled; when no loop is
\* under way nothing is queued or running; and every queued request is
\* eventually resolved or rejected.
C40_OneLoopFifoNothingStranded ==
    /\ [](/\ worker.loops <= 1
          /\ processing <=> worker.loops = 1
          /\ Cardinality({r \in RequestIds :
                             queueLog[r].state = "running"}) <= 1
          /\ \A r, q \in RequestIds :
                (q < r /\ queueLog[r].state \notin {"none", "queued"})
                    => queueLog[q].state \in QueueSettled
          /\ ~processing =>
                /\ requestQueue = << >>
                /\ \A r \in RequestIds :
                      queueLog[r].state \in {"none"} \cup QueueSettled)
    /\ \A r \in RequestIds :
          (queueLog[r].state = "queued") ~> (queueLog[r].state \in QueueSettled)

\* The loop has stopped after settling every request, one of which had been
\* handed in while the loop was busy and waited in the queue.
C40_Witness ==
    /\ ~processing
    /\ worker.loops = 0
    /\ \A r \in RequestIds : queueLog[r].state \in QueueSettled
    /\ \E r \in RequestIds :
          queueLog[r].waited > 0 /\ queueLog[r].state = "resolved"

====
